---------------------------- MODULE Spec2Model ----------------------------
(***************************************************************************)
(* Model of the easysuites-ai-service detection-and-authentication engine: *)
(* AuthService (auth_service.py), FieldDetectionService                    *)
(* (field_detection_service.py) and SessionService (session_service.py).   *)
(*                                                                         *)
(* Strings whose characters matter (URLs, user names, storage values) are  *)
(* sequences of one-character strings, so that Python's `in`, `.lower()`   *)
(* and `.replace()` are computed character by character.                   *)
(***************************************************************************)
EXTENDS Integers, Sequences, FiniteSets, TLC

VARIABLES
    pc,         \* position of the running request in its coroutine
    site,       \* which pages the site under test serves to this request
    fault,      \* the driver call of this request that raises (<<"none","none">>: none)
    page,       \* the request's live page: url and DOM
    ctx,        \* storage state held by the request's browser context
    store,      \* the sessions directory: file name -> file content
    store0,     \* the sessions directory when the request started
    log,        \* driver effects (goto, click, fill, press) of the step taken last
    stage,      \* the stages (or store operations) run so far, each with its result
    seen,       \* the page and the later page.url that _verify_authentication read
    outcome,    \* the value returned to the caller (None while running)
    creds,      \* detect_fields: the credentials argument, or None
    session_used,   \* detect_fields: local session_used
    is_login_page,  \* detect_fields: local is_login_page
    auth_success,   \* detect_fields: result of _perform_auto_authentication, or None
    last_saved,     \* SessionService: per pair, the state its last successful save stored
    requests,   \* endpoints: per concurrent request, its position, locals and response
    services,   \* the BrowserService objects: their browser, context and page
    driver      \* Playwright: the handles given out, those closed, and who used which

vars ==
    <<pc, site, fault, page, ctx, store, store0, log, stage, seen, outcome,
      creds, session_used, is_login_page, auth_success, last_saved,
      requests, services, driver>>

\* the state of the concurrent endpoints
rqVars == <<requests, services, driver>>

\* the locals of detect_fields
dfVars == <<creds, session_used, is_login_page, auth_success>>

\* the locals of perform_authentication
paVars == <<stage, seen>>

-----------------------------------------------------------------------------
(* Character strings                                                        *)

Range(s) == {s[i] : i \in 1..Len(s)}

\* str.lower() on the characters the model uses
LowerChar(c) ==
    CASE c = "E" -> "e"
      [] c = "L" -> "l"
      [] c = "P" -> "p"
      [] c = "D" -> "d"
      [] c = "N" -> "n"
      [] OTHER -> c

Lower(s) == [i \in 1..Len(s) |-> LowerChar(s[i])]

\* Python's `pat in s`
Contains(s, pat) ==
    \E i \in 1..(Len(s) - Len(pat) + 1) : SubSeq(s, i, i + Len(pat) - 1) = pat

\* the first entry of the list `pats` that occurs in s, or <<>> (the loops
\* `for pattern in patterns: if pattern in url`)
RECURSIVE FirstPattern(_, _)
FirstPattern(pats, s) ==
    IF pats = <<>> THEN <<>>
    ELSE IF Contains(s, Head(pats)) THEN Head(pats)
    ELSE FirstPattern(Tail(pats), s)

\* Python's s.replace(old, new): leftmost non-overlapping occurrences
RECURSIVE Replace(_, _, _)
Replace(s, old, new) ==
    IF Len(s) < Len(old) THEN s
    ELSE IF SubSeq(s, 1, Len(old)) = old
         THEN new \o Replace(SubSeq(s, Len(old) + 1, Len(s)), old, new)
         ELSE <<Head(s)>> \o Replace(Tail(s), old, new)

-----------------------------------------------------------------------------
(* URLs the modelled site serves                                            *)

URL_LOGIN == <<"h","t","t","p",":","/","/","s","/","l","o","g","i","n">>
URL_DASH == <<"h","t","t","p",":","/","/","s","/","d","a","s","h","b","o","a","r","d">>
URL_LOGIN_DASH == <<"h","t","t","p",":","/","/","s","/","l","o","g","i","n","?","r","=","d","a","s","h","b","o","a","r","d">>
URL_APP == <<"h","t","t","p",":","/","/","s","/","a","p","p">>
URL_ENTRAR == <<"h","t","t","p",":","/","/","s","/","E","n","t","r","a","r">>
URL_BLANK == <<"a","b","o","u","t",":","b","l","a","n","k">>

\* _verify_authentication: login_url_patterns
verify_login_url_patterns ==
    << <<"/","l","o","g","i","n">>,
       <<"/","s","i","g","n","i","n">>,
       <<"/","a","u","t","h","/","l","o","g","i","n">>,
       <<"/","a","u","t","h","e","n","t","i","c","a","t","i","o","n">>,
       <<"/","e","n","t","r","a","r">>,
       <<"/","a","c","e","s","s","o">> >>

\* _verify_authentication: success_url_patterns
success_url_patterns ==
    << <<"d","a","s","h","b","o","a","r","d">>,
       <<"h","o","m","e">>,
       <<"m","a","i","n">>,
       <<"w","e","l","c","o","m","e">>,
       <<"i","n","d","e","x",".","p","h","p">>,
       <<"p","a","i","n","e","l">>,
       <<"i","n","i","c","i","o">>,
       <<"p","r","i","n","c","i","p","a","l">>,
       <<"/","p","i","m","/">>,
       <<"/","a","d","m","i","n","/">>,
       <<"/","w","e","b","/","i","n","d","e","x",".","p","h","p">>,
       <<"v","i","e","w","P","e","r","s","o","n","a","l","D","e","t","a","i","l","s">>,
       <<"e","m","p","N","u","m","b","e","r">> >>

\* _is_login_page: login_url_patterns
page_login_url_patterns ==
    << <<"/","l","o","g","i","n">>,
       <<"/","s","i","g","n","i","n">>,
       <<"/","a","u","t","h">>,
       <<"/","a","u","t","h","e","n","t","i","c","a","t","i","o","n">>,
       <<"l","o","g","i","n",".">>,
       <<"s","i","g","n","i","n",".">>,
       <<"a","u","t","h",".">>,
       <<"s","s","o",".">>,
       <<"l","o","g","i","n","?">>,
       <<"s","i","g","n","i","n","?">>,
       <<"a","u","t","h","?">> >>

-----------------------------------------------------------------------------
(* Pages.  A page is its url, the elements of its DOM, the <form> that     *)
(* wraps its inputs and button, and the login keywords of its body text     *)
(* and title.  Each element kind stands for one element:                    *)
(*   user    <input name="username">                                        *)
(*   email   <input type="email">                                           *)
(*   text    <input type="text">                                            *)
(*   text_b  <input type="text">, a second one after it                     *)
(*   pass    <input type="password">                                        *)
(*   submit  <button type="submit">Entrar</button>                          *)
(*   submit_b  <button type="submit">Entrar</button>, a second one after it *)
(*   error   <div class="error">Invalid credentials</div>                   *)
(*   logout  <a>Logout</a>                                                  *)
(*   number  <input type="number" matinput class="mat-input-element">       *)
(*   tel     <input type="tel" id="phone" name="phone">                     *)
(*   radio_a <label>Sim <input type="radio" name="opt"></label>             *)
(*   radio_b <label>Nao <input type="radio" name="opt"></label>             *)
(*   select  <select name="opt">                                            *)
(* form is "none", "plain" (<form>) or "login" (<form action="/login">);    *)
(* hidden holds the elements that are not visible; options holds the        *)
(* <option> children of the select, each its value attribute and its text;  *)
(* attrs holds the texts the label of the page's inputs can come from: the  *)
(* innerText of the <label for=id> of an input that has an id, the          *)
(* innerText of the <label> wrapping an input that stands in none of its    *)
(* own, the placeholder and title attributes, and the input's own           *)
(* innerText; <<>> stands for a label or attribute that is absent, <<t>>    *)
(* for one that is there with the text t.                                   *)

DocOrder == <<"user", "email", "text", "text_b", "pass", "number", "tel", "radio_a",
              "radio_b", "select", "submit", "submit_b", "error", "logout">>

\* the element kinds a selector of the source matches
Matches(sel) ==
    CASE sel = "input[name=\"username\"]" -> {"user"}
      [] sel = "input[type=\"email\"]" -> {"email"}
      [] sel = "input[type=\"text\"]" -> {"text", "text_b"}
      [] sel = "input[type=\"password\"]" -> {"pass"}
      [] sel = "input[type=\"text\"], input[type=\"email\"]" -> {"text", "text_b", "email"}
      [] sel = "input[type=\"text\"], input[type=\"email\"], input[type=\"password\"]"
            -> {"text", "text_b", "email", "pass"}
      [] sel = "input[type=\"text\"], input[type=\"email\"], input[name*=\"user\"], input[name*=\"email\"], input[id*=\"user\"], input[id*=\"email\"]"
            -> {"user", "email", "text", "text_b"}
      [] sel = "input[name=\"username\"], input[name=\"user\"], input[name=\"email\"], input[type=\"email\"]"
            -> {"user", "email"}
      [] sel = "input[name*=\"user\"], input[name*=\"email\"], input[name*=\"login\"], input[id*=\"user\"], input[id*=\"email\"], input[id*=\"login\"]"
            -> {"user"}
      [] sel = "button[type=\"submit\"]" -> {"submit", "submit_b"}
      [] sel = "button:has-text(\"Entrar\")" -> {"submit", "submit_b"}
      [] sel = "button[type=\"submit\"], input[type=\"submit\"], button:has-text(\"Login\"), button:has-text(\"Entrar\")"
            -> {"submit", "submit_b"}
      [] sel = ".error" -> {"error"}
      [] sel = "[class*=\"error\"]" -> {"error"}
      [] sel = "a:has-text(\"Logout\")" -> {"logout"}
      [] sel = "form button" -> {"submit", "submit_b"}
      [] sel = "input" -> {"user", "email", "text", "text_b", "pass", "number", "tel", "radio_a", "radio_b"}
      [] sel = "input[type=\"number\"]" -> {"number"}
      [] sel = "input[matinput]" -> {"number"}
      [] sel = "input.mat-input-element" -> {"number"}
      [] sel = "input[type=\"tel\"]" -> {"tel"}
      [] sel = "input[type=\"radio\"]" -> {"radio_a", "radio_b"}
      [] sel = "select" -> {"select"}
      [] OTHER -> {}

\* selectors that match the <form> element itself
FormMatches(sel, form) ==
    \/ sel = "form" /\ form # "none"
    \/ sel = "form[action*=\"login\"]" /\ form = "login"

\* the elements of p matching sel, in document order (query_selector_all)
QueryAll(p, sel) ==
    IF sel = "form button" /\ p.form = "none" THEN <<>>
    ELSE SelectSeq(DocOrder, LAMBDA k : k \in p.elems /\ k \in Matches(sel))

\* page.query_selector(sel): the first match, or "none"
Query(p, sel) ==
    IF FormMatches(sel, p.form) THEN "form"
    ELSE IF QueryAll(p, sel) = <<>> THEN "none" ELSE Head(QueryAll(p, sel))

\* form.query_selector(sel): the page's inputs all sit inside its form
QueryInForm(p, sel) == IF p.form = "none" THEN "none" ELSE Query(p, sel)

\* lower-cased page.inner_text('body') contains kw; a submit button adds its
\* own text "Entrar"
BodyHas(p, kw) ==
    kw \in p.body \/ (kw = "entrar" /\ p.elems \cap {"submit", "submit_b"} # {})

\* element.is_visible()
Visible(p, k) == k \in p.elems /\ k \notin p.hidden

\* inputs with no label, no placeholder, no title and no text
NoAttrs ==
    [for_label |-> <<>>, parent_label |-> <<>>, placeholder |-> <<>>, title |-> <<>>,
     text |-> <<>>]

BlankPage ==
    [url |-> URL_BLANK, elems |-> {}, hidden |-> {}, form |-> "none", body |-> {}, title |-> {}, options |-> <<>>, attrs |-> NoAttrs]

\* what a site can serve for a navigation to the login url
LandingPages ==
    { [url |-> URL_LOGIN, elems |-> e, hidden |-> {}, form |-> f, body |-> b, title |-> {}, options |-> <<>>, attrs |-> NoAttrs] :
        e \in SUBSET {"user", "text", "pass", "submit"},
        f \in {"none", "plain", "login"}, b \in {{}, {"login"}} }

\* what a site can show after a submission
PostPages ==
    { [url |-> u, elems |-> e, hidden |-> {}, form |-> "none", body |-> {}, title |-> {}, options |-> <<>>, attrs |-> NoAttrs] :
        u \in {URL_LOGIN, URL_DASH, URL_LOGIN_DASH, URL_APP, URL_ENTRAR},
        e \in SUBSET {"user", "pass", "error", "logout"} }

\* Sites.  "any" serves any landing page and answers a submission with any
\* page.  "scenarioA" serves a page with <input name="username">,
\* <input type="password"> and <button type="submit">Entrar</button>, and
\* answers a submission with a page whose url contains "dashboard" and no
\* login pattern.
Sites == {"any", "scenarioA"}

Landing(s) ==
    IF s = "scenarioA"
    THEN {p \in LandingPages : p.elems = {"user", "pass", "submit"}}
    ELSE LandingPages

Posted(s) ==
    IF s = "scenarioA"
    THEN {p \in PostPages : p.url = URL_DASH}
    ELSE PostPages


-----------------------------------------------------------------------------
(* Driver faults.  A request suffers at most one: fault = <<caller, call    *)
(* site>> names the driver call that raised.  A stage operator is given the *)
(* call site that raises in this call of the stage, or "none".  A fault     *)
(* inside a selector loop hits the first iteration whose selector matches:  *)
(* raising in an iteration that finds nothing changes nothing.              *)

NoFault == <<"none", "none">>

\* index of the first selector of sels, from i on, whose query finds an
\* element; with skip, the first such query raises and the loop continues
RECURSIVE FirstHit(_, _, _, _)
FirstHit(p, sels, i, skip) ==
    IF i > Len(sels) THEN 0
    ELSE IF Query(p, sels[i]) # "none"
         THEN IF skip THEN FirstHit(p, sels, i + 1, FALSE) ELSE i
         ELSE FirstHit(p, sels, i + 1, skip)

-----------------------------------------------------------------------------
(* AuthService._detect_login_form.  The result carries `raised`: whether    *)
(* the call site f was executed, so that the driver did raise there.        *)

login_selectors ==
    << "form[action*=\"login\"]", "form[action*=\"signin\"]", "form[action*=\"auth\"]",
       "form#login", "form#signin", "form.login", "form.signin",
       "[data-testid*=\"login\"]", "[data-testid*=\"signin\"]",
       "input[name=\"username\"]", "input[name=\"password\"]",
       "button[type=\"submit\"]", ".oxd-form" >>

detect_login_keywords == <<"login", "entrar", "sign in", "log in", "acesso", "autenticacao">>

\* str(e) of the exception a driver call raises: Playwright's text names the
\* call and, for a fill, echoes the value that was to be typed.  A call is
\* the tuple the log keeps for it, or the name of its call site; the values
\* "username" and "password" stand for the texts of the credentials.
ErrorText(call) ==
    IF call[1] = "fill" THEN <<"ElementHandle.fill: ", call[3]>> ELSE <<call[1]>>

\* the except branch of _detect_login_form
DetectError(f) ==
    [detected |-> FALSE, message |-> <<"Erro na deteccao">> \o ErrorText(<<f>>), raised |-> TRUE]

DetectNotFound(raised) ==
    [detected |-> FALSE, message |-> <<"Formulario de login nao encontrado">>, raised |-> raised]

DetectFound(message, raised) == [detected |-> TRUE, message |-> message, raised |-> raised]

\* strategy 3 content with a single input beside the keyword
DetectByKeyword_OneInput(p, f, raised) ==
    LET found == SelectSeq(detect_login_keywords, LAMBDA kw : BodyHas(p, kw))
        inputs == QueryAll(p, "input[type=\"text\"], input[type=\"email\"], input[type=\"password\"]")
    IN  IF found = <<>> THEN DetectNotFound(raised)
        ELSE IF f = "detect.inputs" THEN DetectError(f)
        ELSE IF Len(inputs) >= 1
             THEN DetectFound(<<"Formulario detectado pela palavra-chave", Head(found)>>, raised)
             ELSE DetectNotFound(raised)

\* strategy 3: the first keyword found in the body text decides
DetectByKeyword(p, f, raised) ==
    LET found == SelectSeq(detect_login_keywords, LAMBDA kw : BodyHas(p, kw))
        inputs == QueryAll(p, "input[type=\"text\"], input[type=\"email\"], input[type=\"password\"]")
    IN  IF found = <<>> THEN DetectNotFound(raised)
        ELSE IF f = "detect.inputs" THEN DetectError(f)
        ELSE IF Len(inputs) >= 2
             THEN DetectFound(<<"Formulario detectado pela palavra-chave", Head(found)>>, raised)
             ELSE DetectNotFound(raised)

\* strategy 2: a form holding a user input and a password input; a raise
\* while looking into a form is caught and the form skipped
DetectByStructure(p, f, raised) ==
    LET skipped == p.form # "none" /\ f = "detect.form_query"
    IN  IF f = "detect.forms" THEN DetectError(f)
        ELSE IF /\ ~skipped
                /\ QueryInForm(p, "input[type=\"text\"], input[type=\"email\"], input[name*=\"user\"], input[name*=\"email\"], input[id*=\"user\"], input[id*=\"email\"]") # "none"
                /\ QueryInForm(p, "input[type=\"password\"]") # "none"
        THEN DetectFound(<<"Formulario com campos de usuario e senha encontrado">>, raised)
        ELSE IF f = "detect.text" THEN DetectError(f)
        ELSE DetectByKeyword(p, f, raised \/ skipped)

_detect_login_form(p, f) ==
    IF f \in {"detect.wait", "detect.title", "detect.count"} THEN DetectError(f)
    ELSE LET i == FirstHit(p, login_selectors, 1, f = "detect.loop")
             raised == f = "detect.loop"
         IN  IF i # 0
             THEN DetectFound(<<"Formulario encontrado", login_selectors[i]>>, raised)
             ELSE IF f = "detect.orange" THEN DetectError(f)
             ELSE IF /\ Query(p, "input[name=\"username\"]") # "none"
                     /\ Query(p, "input[name=\"password\"]") # "none"
                  THEN DetectFound(<<"Formulario OrangeHRM detectado">>, raised)
                  ELSE DetectByStructure(p, f, raised)

DetectFaults ==
    {"detect.wait", "detect.title", "detect.count", "detect.loop", "detect.orange",
     "detect.forms", "detect.form_query", "detect.text", "detect.inputs"}

-----------------------------------------------------------------------------
(* AuthService._fill_credentials                                            *)

username_selectors ==
    << "input[name=\"username\"]", "input[name=\"user\"]", "input[name=\"email\"]",
       "input[name=\"login\"]", "input[id=\"username\"]", "input[id=\"user\"]",
       "input[id=\"email\"]", "input[id=\"login\"]", "input[type=\"email\"]",
       "input[placeholder*=\"usuario\"]", "input[placeholder*=\"email\"]",
       "input[placeholder*=\"user\"]" >>

\* the except branch of _fill_credentials, after the driver effects `done`
FillError(done, call) ==
    [ok |-> FALSE, message |-> <<"Erro no preenchimento">> \o ErrorText(call), events |-> done,
     raised |-> TRUE]

FillMissing(message, raised) ==
    [ok |-> FALSE, message |-> message, events |-> <<>>, raised |-> raised]

\* FillOps with the password field handled first
FillOps_PasswordFirst(user, stop, raised) ==
    LET ops == << <<"click", "pass">>, <<"fill", "pass", "">>, <<"fill", "pass", "password">>,
                  <<"click", user>>, <<"fill", user, "">>, <<"fill", user, "username">> >>
    IN  IF stop = 0
        THEN [ok |-> TRUE, message |-> <<"Credenciais preenchidas com sucesso">>,
              events |-> ops, raised |-> raised]
        ELSE FillError(SubSeq(ops, 1, stop - 1), ops[stop])

\* click, clear, fill on the user field, then on the password field; the
\* driver call at position `stop` raises (0: none does)
FillOps(user, stop, raised) ==
    LET ops == << <<"click", user>>, <<"fill", user, "">>, <<"fill", user, "username">>,
                  <<"click", "pass">>, <<"fill", "pass", "">>, <<"fill", "pass", "password">> >>
    IN  IF stop = 0
        THEN [ok |-> TRUE, message |-> <<"Credenciais preenchidas com sucesso">>,
              events |-> ops, raised |-> raised]
        ELSE FillError(SubSeq(ops, 1, stop - 1), ops[stop])

FillStop(f) ==
    CASE f = "fill.user_click" -> 1
      [] f = "fill.user_fill" -> 3
      [] f = "fill.pass_click" -> 4
      [] f = "fill.pass_fill" -> 6
      [] OTHER -> 0

\* the first of the six driver calls of FillOps that acts on an element that
\* is not visible (0: none does): the driver waits for the element to become
\* visible, times out and raises
HiddenStop(p, user) ==
    IF ~Visible(p, user) THEN 1 ELSE IF ~Visible(p, "pass") THEN 4 ELSE 0

\* the username field: the first attribute selector that finds an element,
\* else text_inputs[0]
UsernameField(p, f) ==
    LET i == FirstHit(p, username_selectors, 1, f = "fill.loop")
        bySelector == IF i = 0 THEN "none" ELSE Query(p, username_selectors[i])
        text_inputs == QueryAll(p, "input[type=\"text\"], input[type=\"email\"]")
    IN  IF bySelector # "none" THEN bySelector
        ELSE IF text_inputs # <<>> THEN Head(text_inputs) ELSE "none"

_fill_credentials(p, f) ==
    LET i == FirstHit(p, username_selectors, 1, f = "fill.loop")
        bySelector == IF i = 0 THEN "none" ELSE Query(p, username_selectors[i])
        username_field == UsernameField(p, f)
        raised == f = "fill.loop"
        hidden == HiddenStop(p, username_field)
        injected == FillStop(f) # 0 /\ (hidden = 0 \/ FillStop(f) <= hidden)
        stop == IF injected \/ hidden = 0 THEN FillStop(f) ELSE hidden
        r == FillOps(username_field, stop, raised)
    IN  IF bySelector = "none" /\ f = "fill.text_inputs" THEN FillError(<<>>, <<f>>)
        ELSE IF username_field = "none"
        THEN FillMissing(<<"Campo de usuario nao encontrado">>, raised)
        ELSE IF f = "fill.password" THEN FillError(<<>>, <<f>>)
        ELSE IF Query(p, "input[type=\"password\"]") = "none"
        THEN FillMissing(<<"Campo de senha nao encontrado">>, raised)
        ELSE IF stop = 0 THEN r ELSE [r EXCEPT !.raised = injected \/ raised]

FillFaults ==
    {"fill.loop", "fill.text_inputs", "fill.password", "fill.user_click",
     "fill.user_fill", "fill.pass_click", "fill.pass_fill"}

-----------------------------------------------------------------------------
(* AuthService._submit_form                                                 *)

submit_selectors ==
    << "button[type=\"submit\"]", "input[type=\"submit\"]", "button:has-text(\"Entrar\")",
       "button:has-text(\"Login\")", "button:has-text(\"Sign in\")",
       "button:has-text(\"Acessar\")", "[data-testid*=\"login\"]",
       "[data-testid*=\"submit\"]" >>

\* the except branch of _submit_form
SubmitError(f) ==
    [ok |-> FALSE, message |-> <<"Erro na submissao">> \o ErrorText(<<f>>), events |-> <<>>,
     raised |-> TRUE]

\* strategy 2: Enter in the password field; a raise of the wait after it is
\* swallowed
SubmitByEnter(p, f, raised) ==
    IF f = "submit.password" THEN SubmitError(f)
    ELSE IF Query(p, "input[type=\"password\"]") = "none"
    THEN [ok |-> FALSE, message |-> <<"Botao de submit nao encontrado">>,
          events |-> <<>>, raised |-> raised]
    ELSE IF f = "submit.press" THEN SubmitError(f)
    ELSE [ok |-> TRUE, message |-> <<"Formulario submetido via Enter">>,
          events |-> << <<"press", "pass", "Enter">> >>,
          raised |-> raised \/ f = "submit.wait_enter"]

\* strategy 1: the first selector that finds a button; a raise of the query
\* or of the click is caught and the next selector tried (a click that
\* raised did not reach the page); a raise of the wait after the click is
\* swallowed
\* index of the first selector of sels, from i on, whose query finds a
\* button the click on which returns.  The click on a button that is not
\* visible times out and raises, and the loop continues; so does, with
\* skipQuery, the first query that would find a button, and, with
\* skipClick, the first click on a visible button
RECURSIVE FirstClick(_, _, _, _, _)
FirstClick(p, sels, i, skipQuery, skipClick) ==
    IF i > Len(sels) THEN 0
    ELSE IF Query(p, sels[i]) = "none" THEN FirstClick(p, sels, i + 1, skipQuery, skipClick)
    ELSE IF skipQuery THEN FirstClick(p, sels, i + 1, FALSE, skipClick)
    ELSE IF ~Visible(p, Query(p, sels[i])) THEN FirstClick(p, sels, i + 1, FALSE, skipClick)
    ELSE IF skipClick THEN FirstClick(p, sels, i + 1, FALSE, FALSE)
    ELSE i

_submit_form(p, f) ==
    LET i == FirstClick(p, submit_selectors, 1, f = "submit.query", f = "submit.click")
        raised == \/ f = "submit.query"
                  \/ f = "submit.click" /\ FirstClick(p, submit_selectors, 1, FALSE, FALSE) # 0
    IN  IF i # 0
        THEN [ok |-> TRUE, message |-> <<"Formulario submetido via botao", submit_selectors[i]>>,
              events |-> << <<"click", Query(p, submit_selectors[i])>> >>,
              raised |-> raised \/ f = "submit.wait"]
        ELSE SubmitByEnter(p, f, raised)

SubmitFaults ==
    {"submit.query", "submit.click", "submit.wait", "submit.password", "submit.press",
     "submit.wait_enter"}

-----------------------------------------------------------------------------
(* AuthService._verify_authentication                                       *)

error_selectors ==
    << ".error", ".alert-danger", ".alert-error", "[class*=\"error\"]",
       "[class*=\"invalid\"]", "[data-testid*=\"error\"]" >>

success_selectors ==
    << "[data-testid*=\"logout\"]", "[data-testid*=\"profile\"]", "button:has-text(\"Sair\")",
       "button:has-text(\"Logout\")", "a:has-text(\"Sair\")", "a:has-text(\"Logout\")" >>

\* is_still_on_login
IsStillOnLogin(current_url) == FirstPattern(verify_login_url_patterns, Lower(current_url)) # <<>>

Verdict(verified, message, raised) ==
    [verified |-> verified, message |-> message, raised |-> raised]

\* VerifyByForm with the default turned into success
VerifyByForm_Lenient(p, later_url, f, raised) ==
    LET password_field == Query(p, "input[type=\"password\"]")
        username_field == Query(p, "input[name=\"username\"], input[name=\"user\"], input[name=\"email\"], input[type=\"email\"]")
    IN  IF f = "verify.form_query"
        THEN Verdict(FALSE, <<"Erro na verificacao">> \o ErrorText(<<f>>), TRUE)
        ELSE IF password_field # "none" /\ username_field # "none"
        THEN Verdict(FALSE, <<"Formulario de login ainda esta presente na pagina">>, raised)
        ELSE Verdict(TRUE, <<"Nao foi possivel confirmar o sucesso da autenticacao">>, raised)

\* strategies 4 and 5; later_url is page.url as read again by strategy 5
VerifyByForm(p, later_url, f, raised) ==
    LET password_field == Query(p, "input[type=\"password\"]")
        username_field == Query(p, "input[name=\"username\"], input[name=\"user\"], input[name=\"email\"], input[type=\"email\"]")
    IN  IF f = "verify.form_query"
        THEN Verdict(FALSE, <<"Erro na verificacao">> \o ErrorText(<<f>>), TRUE)
        ELSE IF password_field # "none" /\ username_field # "none"
        THEN Verdict(FALSE, <<"Formulario de login ainda esta presente na pagina">>, raised)
        ELSE IF password_field = "none" /\ ~IsStillOnLogin(p.url)
        THEN Verdict(TRUE, <<"Ausencia de formulario de login em pagina nao-login indica sucesso">>, raised)
        ELSE IF ~IsStillOnLogin(p.url) /\ p.url # later_url
        THEN Verdict(TRUE, <<"Redirecionamento significativo detectado apos login">>, raised)
        ELSE Verdict(FALSE, <<"Nao foi possivel confirmar o sucesso da autenticacao">>, raised)

\* strategy 3: post-login elements; a raise in the loop is caught and the
\* next selector tried
VerifyBySuccessElement(p, later_url, f, raised) ==
    LET s == FirstHit(p, success_selectors, 1, f = "verify.success_query")
    IN  IF s # 0
        THEN Verdict(TRUE, <<"Elementos de usuario autenticado detectados", success_selectors[s]>>,
                     raised \/ f = "verify.success_query")
        ELSE VerifyByForm(p, later_url, f, raised \/ f = "verify.success_query")

\* strategies 2 and 3 in the opposite order
VerifyByErrorElement_SuccessFirst(p, later_url, f) ==
    LET e == FirstHit(p, error_selectors, 1, f \in {"verify.error_query", "verify.error_text"})
        s == FirstHit(p, success_selectors, 1, f = "verify.success_query")
    IN  IF s # 0
        THEN Verdict(TRUE, <<"Elementos de usuario autenticado detectados", success_selectors[s]>>,
                     f = "verify.success_query")
        ELSE IF e # 0
        THEN Verdict(FALSE, <<"Erro de autenticacao: Invalid credentials">>, f # "none")
        ELSE VerifyByForm(p, later_url, f, f # "none")

\* strategy 2: error elements with text; a raise of the query or of
\* inner_text is caught and the next selector tried
VerifyByErrorElement(p, later_url, f) ==
    LET e == FirstHit(p, error_selectors, 1, f \in {"verify.error_query", "verify.error_text"})
        raised == \/ f = "verify.error_query"
                  \/ f = "verify.error_text" /\ FirstHit(p, error_selectors, 1, FALSE) # 0
    IN  IF e # 0
        THEN Verdict(FALSE, <<"Erro de autenticacao: Invalid credentials">>, raised)
        ELSE VerifyBySuccessElement(p, later_url, f, raised)

\* _verify_authentication with the error elements read before the url
_verify_authentication_ErrorFirst(p, later_url, f) ==
    LET pattern == FirstPattern(success_url_patterns, Lower(p.url))
    IN  IF FirstHit(p, error_selectors, 1, FALSE) # 0
        THEN Verdict(FALSE, <<"Erro de autenticacao: Invalid credentials">>, FALSE)
        ELSE IF ~IsStillOnLogin(p.url) /\ pattern # <<>>
        THEN Verdict(TRUE, <<"Redirecionamento para pagina autenticada detectado", pattern>>, FALSE)
        ELSE VerifyBySuccessElement(p, later_url, f, FALSE)

\* _verify_authentication without the url patterns of strategy 1
_verify_authentication_NoUrlSignal(p, later_url, f) == VerifyByErrorElement(p, later_url, f)

\* strategy 1, the url patterns, then the rest
_verify_authentication(p, later_url, f) ==
    LET pattern == FirstPattern(success_url_patterns, Lower(p.url))
    IN  IF ~IsStillOnLogin(p.url) /\ pattern # <<>>
        THEN Verdict(TRUE, <<"Redirecionamento para pagina autenticada detectado", pattern>>, FALSE)
        ELSE VerifyByErrorElement(p, later_url, f)

VerifyFaults ==
    {"verify.error_query", "verify.error_text", "verify.success_query", "verify.form_query"}

-----------------------------------------------------------------------------
(* SessionService: the sessions directory                                   *)

None == <<>>

Some(x) == <<x>>

\* SessionService._get_session_file_path (the file name inside sessions_dir)
_get_session_file_path(url, username) ==
    LET safe_url == Replace(Replace(Replace(url, <<":", "/", "/">>, <<"_">>),
                                    <<"/">>, <<"_">>), <<"?">>, <<"_">>)
        safe_username == Replace(Replace(username, <<"@">>, <<"_", "a", "t", "_">>),
                                 <<".">>, <<"_">>)
    IN  safe_url \o <<"_">> \o safe_username
            \o <<"_","s","e","s","s","i","o","n",".","j","s","o","n">>

\* the directory with file f (over)written with content c
WriteFile(dir, f, c) == [g \in (DOMAIN dir) \cup {f} |-> IF g = f THEN c ELSE dir[g]]

SessionData(url, username, storage_state) ==
    [kind |-> "json", url |-> url, username |-> username, storage_state |-> storage_state]

\* what open(file, 'w') followed by a failed json.dump leaves behind
PartialFile == [kind |-> "partial"]

\* SessionService.save_session: the returned flag and the directory afterwards
save_session(dir, storage_state, url, username, f) ==
    LET session_file == _get_session_file_path(url, username)
    IN  IF f \in {"save.storage_state", "save.open"}
        THEN [ok |-> FALSE, dir |-> dir, raised |-> TRUE, escaped |-> FALSE]
        ELSE IF f = "save.dump"
        THEN [ok |-> FALSE, dir |-> WriteFile(dir, session_file, PartialFile), raised |-> TRUE,
              escaped |-> FALSE]
        ELSE [ok |-> TRUE, raised |-> FALSE, escaped |-> FALSE,
              dir |-> WriteFile(dir, session_file, SessionData(url, username, storage_state))]

SaveFaults == {"save.storage_state", "save.open", "save.dump"}

\* SessionService.session_exists
session_exists(dir, url, username) == _get_session_file_path(url, username) \in DOMAIN dir

\* the file operations of load_session that may raise
LoadFaults == {"load.exists", "load.open", "load.json"}

\* What a call returns when an operation inside its try block raises: the
\* except clause returns `value`.  raised tells that an operation raised,
\* escaped that the exception left the call.
Caught(value) == [value |-> value, raised |-> TRUE, escaped |-> FALSE]

Returned(value) == [value |-> value, raised |-> FALSE, escaped |-> FALSE]

\* load_session without its try block: the variant a theorem is checked
\* against
load_session_NoTry(dir, url, username, f) ==
    LET session_file == _get_session_file_path(url, username)
    IN  IF f = "load.exists" \/ (f \in LoadFaults /\ session_file \in DOMAIN dir)
        THEN [value |-> None, raised |-> TRUE, escaped |-> TRUE]
        ELSE IF session_file \notin DOMAIN dir THEN Returned(None)
        ELSE IF dir[session_file].kind # "json" THEN Caught(None)
        ELSE Returned(Some(dir[session_file]))

\* SessionService.load_session: None when the file is missing, and when
\* exists(), open() or json.load raises (json.load does on a file that holds
\* no complete document)
load_session(dir, url, username, f) ==
    LET session_file == _get_session_file_path(url, username)
    IN  IF f = "load.exists" THEN Caught(None)
        ELSE IF session_file \notin DOMAIN dir THEN Returned(None)
        ELSE IF f \in {"load.open", "load.json"} THEN Caught(None)
        ELSE IF dir[session_file].kind # "json" THEN Caught(None)
        ELSE Returned(Some(dir[session_file]))

EmptyDir == [f \in {} |-> PartialFile]

-----------------------------------------------------------------------------
(* Browser contexts.  A context holds cookies, per-origin localStorage and  *)
(* sessionStorage entries (in the shape context.storage_state() reports     *)
(* them) and the number of transient pages open in it.                      *)

Cookie(value) == [name |-> "sid", value |-> value, domain |-> "s"]

Origin(origin, localStorage, sessionStorage) ==
    [origin |-> origin, localStorage |-> localStorage, sessionStorage |-> sessionStorage]

Item(name, value) == [name |-> name, value |-> value]

Context(cookies, origins) == [cookies |-> cookies, origins |-> origins, open |-> 0]

FreshContext == Context(<<>>, <<>>)

\* context.storage_state()
StorageState(c) == [cookies |-> c.cookies, origins |-> c.origins]

ORIGIN_S == <<"h","t","t","p",":","/","/","s">>

LoggedInContext == Context(<<Cookie(<<"a">>)>>, <<>>)

\* a storage state saved by an earlier request: one cookie, one origin with
\* one localStorage entry
StaleState ==
    [cookies |-> <<Cookie(<<"o","l","d">>)>>,
     origins |-> <<Origin(ORIGIN_S, <<Item(<<"k">>, <<"a">>)>>, <<>>)>>]

\* The JavaScript string that the literal '<s>' denotes, as Some(string), or
\* None when the literal does not parse: page.evaluate is given
\* f"localStorage.setItem('{name}', '{value}')".  A backslash escapes the
\* character after it; an unescaped quote ends the literal, and no character
\* of the model's alphabet can follow a literal inside the call.
RECURSIVE JsLiteral(_)
JsLiteral(s) ==
    IF s = <<>> THEN Some(<<>>)
    ELSE IF Head(s) = "'" THEN None
    ELSE IF Head(s) = "\\"
         THEN IF Len(s) = 1 \/ JsLiteral(SubSeq(s, 3, Len(s))) = None THEN None
              ELSE Some(<<s[2]>> \o JsLiteral(SubSeq(s, 3, Len(s)))[1])
         ELSE IF JsLiteral(Tail(s)) = None THEN None
              ELSE Some(<<Head(s)>> \o JsLiteral(Tail(s))[1])

\* Storage.setItem(name, value) on a list of entries
SetItem(items, name, value) ==
    IF \E i \in 1..Len(items) : items[i].name = name
    THEN [i \in 1..Len(items) |->
             IF items[i].name = name THEN Item(name, value) ELSE items[i]]
    ELSE Append(items, Item(name, value))

\* the context after <area>.setItem(name, value) ran in a page of `origin`
SetStorage(c, origin, area, name, value) ==
    LET known == \E i \in 1..Len(c.origins) : c.origins[i].origin = origin
        base == IF known THEN c.origins ELSE Append(c.origins, Origin(origin, <<>>, <<>>))
    IN  [c EXCEPT !.origins =
            [i \in 1..Len(base) |->
                IF base[i].origin # origin THEN base[i]
                ELSE IF area = "localStorage"
                     THEN [base[i] EXCEPT !.localStorage = SetItem(@, name, value)]
                     ELSE [base[i] EXCEPT !.sessionStorage = SetItem(@, name, value)]]]

-----------------------------------------------------------------------------
(* SessionService.apply_session_to_context                                  *)

ApplyResult(ok, c, raised) == [ok |-> ok, ctx |-> c, raised |-> raised]

\* the loop `for item in <area>: await page.evaluate(...)`; with `raise` the
\* driver raises in the first evaluate; an evaluate of a script that does
\* not parse raises too
RECURSIVE ApplyItems(_, _, _, _, _)
ApplyItems(c, origin, area, items, raise) ==
    IF items = <<>> THEN ApplyResult(TRUE, c, FALSE)
    ELSE IF raise THEN ApplyResult(FALSE, c, TRUE)
    ELSE LET name == JsLiteral(Head(items).name)
             value == JsLiteral(Head(items).value)
         IN  IF name = None \/ value = None THEN ApplyResult(FALSE, c, FALSE)
             ELSE ApplyItems(SetStorage(c, origin, area, name[1], value[1]),
                             origin, area, Tail(items), FALSE)

\* one iteration of `for origin in origins`
ApplyOrigin(c, o, f) ==
    LET opened == [c EXCEPT !.open = @ + 1]
        local == ApplyItems(opened, o.origin, "localStorage", o.localStorage,
                            f = "apply.evaluate")
        session == ApplyItems(local.ctx, o.origin, "sessionStorage", o.sessionStorage,
                              f = "apply.evaluate" /\ o.localStorage = <<>>)
    IN  IF o.origin = <<>> THEN ApplyResult(TRUE, c, FALSE)
        ELSE IF f = "apply.new_page" THEN ApplyResult(FALSE, c, TRUE)
        ELSE IF f = "apply.goto" THEN ApplyResult(FALSE, opened, TRUE)
        ELSE IF ~local.ok THEN local
        ELSE IF ~session.ok THEN session
        ELSE IF f = "apply.close" THEN ApplyResult(FALSE, session.ctx, TRUE)
        ELSE ApplyResult(TRUE, [session.ctx EXCEPT !.open = @ - 1], FALSE)

\* `for origin in origins`, left to right; the except branch ends the loop
RECURSIVE ApplyOrigins(_, _, _)
ApplyOrigins(c, origins, f) ==
    IF origins = <<>> THEN ApplyResult(TRUE, c, FALSE)
    ELSE LET r == ApplyOrigin(c, Head(origins), f)
         IN  IF ~r.ok THEN r
             ELSE ApplyOrigins(r.ctx, Tail(origins), f)

apply_session_to_context(dir, c, url, username, f) ==
    LET loaded == load_session(dir, url, username, f)
        session_data == loaded.value
    IN  IF session_data = None THEN ApplyResult(FALSE, c, f \in LoadFaults /\ loaded.raised)
        ELSE IF f = "apply.add_cookies" THEN ApplyResult(FALSE, c, TRUE)
        ELSE ApplyOrigins([c EXCEPT !.cookies = @ \o session_data[1].storage_state.cookies],
                          session_data[1].storage_state.origins, f)

ApplyFaults ==
    {"apply.add_cookies", "apply.new_page", "apply.goto", "apply.evaluate", "apply.close"}

-----------------------------------------------------------------------------
(* AuthService.test_authentication and AuthService.perform_authentication, *)
(* one request, for the url and credentials below                           *)

AuthUrl == URL_LOGIN

AuthUser == <<"u","s","e","r">>

\* The (url, username) pairs the session store is exercised with, and the
\* storage state last saved successfully for each (None before any save, and
\* after a delete)
StoreKeys ==
    { << <<"s","/","x">>, <<"u",".","v">> >>,
      << <<"s","?","x">>, <<"u",".","v">> >>,
      << <<"s","/","x">>, <<"u","_","v">> >>,
      << <<"t">>, <<"u",".","v">> >> }

NoSaves == [k \in StoreKeys |-> None]

\* no endpoint is running: the specifications of one request look at the
\* service call alone
IdleDriver == [closed |-> {}, uses |-> {}, stale |-> FALSE]

NoRequests == requests = <<>> /\ services = <<>> /\ driver = IdleDriver

NoSeen == [page |-> BlankPage, later_url |-> URL_BLANK]

InitAuth ==
    /\ pc = "ta_goto"
    /\ site \in Sites
    /\ fault = NoFault
    /\ page = BlankPage
    /\ ctx = FreshContext
    /\ store0 \in {EmptyDir,
                   WriteFile(EmptyDir, _get_session_file_path(AuthUrl, AuthUser),
                             SessionData(AuthUrl, AuthUser, StaleState))}
    /\ store = store0
    /\ log = <<>>
    /\ stage = <<>>
    /\ seen = NoSeen
    /\ outcome = None
    /\ creds = None
    /\ session_used = FALSE
    /\ is_login_page = FALSE
    /\ auth_success = None
    /\ last_saved = NoSaves
    /\ NoRequests

\* the call sites among `sites` at which the driver may raise in the step
\* being taken: any of them while the request has had no fault, none after
Raises(sites) == IF fault = NoFault THEN sites \cup {"none"} ELSE {"none"}

Faulted(caller, f, raised) == IF raised THEN <<caller, f>> ELSE fault

\* the dictionary test_authentication returns
Outcome(success, message, login_detected, post_login_url, session_saved) ==
    [success |-> success, message |-> message, authenticated |-> success,
     login_detected |-> login_detected, form_filled |-> success,
     submission_successful |-> success, post_login_url |-> post_login_url,
     session_saved |-> session_saved]

\* TAError with a positive flag
TAError_Positive ==
    [success |-> TRUE, message |-> <<"Erro interno durante teste de autenticacao">>,
     authenticated |-> FALSE, login_detected |-> FALSE, form_filled |-> FALSE,
     submission_successful |-> FALSE, post_login_url |-> None, session_saved |-> FALSE]

\* test_authentication's except branch
TAError ==
    [success |-> FALSE, message |-> <<"Erro interno durante teste de autenticacao">>,
     authenticated |-> FALSE, login_detected |-> FALSE, form_filled |-> FALSE,
     submission_successful |-> FALSE, post_login_url |-> None, session_saved |-> FALSE]

\* perform_authentication returns (success, message, session_saved); the
\* model keeps the tuple as the last entry of stage
PAReturn(success, message, session_saved) ==
    <<"return", [success |-> success, message |-> message, session_saved |-> session_saved]>>

\* test_authentication: page.goto(url)
TA_Goto ==
    /\ pc = "ta_goto"
    /\ \E f \in Raises({"goto"}) :
         /\ fault' = Faulted("ta", f, f = "goto")
         /\ IF f = "goto"
            THEN /\ outcome' = Some([TAError EXCEPT !.message = @ \o ErrorText(<<"goto">>)])
                 /\ pc' = "ta_done"
                 /\ UNCHANGED <<page, log>>
            ELSE /\ \E p \in Landing(site) : page' = p
                 /\ log' = << <<"goto", AuthUrl>> >>
                 /\ pc' = "ta_detect"
                 /\ UNCHANGED outcome
    /\ UNCHANGED <<site, ctx, store, store0, stage, seen, dfVars, last_saved, rqVars>>

\* test_authentication: _detect_login_form and the early return
TA_Detect ==
    /\ pc = "ta_detect"
    /\ \E f \in Raises(DetectFaults) :
         LET r == _detect_login_form(page, f)
         IN  /\ fault' = Faulted("ta", f, r.raised)
             /\ log' = <<>>
             /\ IF r.detected
                THEN pc' = "pa_goto" /\ UNCHANGED outcome
                ELSE /\ pc' = "ta_done"
                     /\ outcome' = Some([TAError EXCEPT
                            !.message = <<"Formulario de login nao detectado">> \o r.message])
    /\ UNCHANGED <<site, page, ctx, store, store0, stage, seen, dfVars, last_saved, rqVars>>

\* perform_authentication, stage 0: page.goto(url)
PA_Goto ==
    /\ pc = "pa_goto"
    /\ \E f \in Raises({"goto"}) :
         /\ fault' = Faulted("pa", f, f = "goto")
         /\ IF f = "goto"
            THEN /\ stage' = <<PAReturn(FALSE, <<"Erro interno durante autenticacao">>
                                                   \o ErrorText(<<"goto">>), FALSE)>>
                 /\ pc' = "ta_return"
                 /\ UNCHANGED <<page, log>>
            ELSE /\ \E p \in Landing(site) : page' = p
                 /\ log' = << <<"goto", AuthUrl>> >>
                 /\ stage' = << <<"navigate", TRUE>> >>
                 /\ pc' = "pa_detect"
    /\ UNCHANGED <<site, ctx, store, store0, seen, outcome, dfVars, last_saved, rqVars>>

\* perform_authentication, stage 1: _detect_login_form
PA_Detect ==
    /\ pc = "pa_detect"
    /\ \E f \in Raises(DetectFaults) :
         LET r == _detect_login_form(page, f)
         IN  /\ fault' = Faulted("pa", f, r.raised)
             /\ log' = <<>>
             /\ IF r.detected
                THEN /\ stage' = Append(stage, <<"detect", TRUE>>)
                     /\ pc' = "pa_fill"
                ELSE /\ stage' = stage \o << <<"detect", FALSE>>,
                            PAReturn(FALSE, <<"Formulario de login nao detectado">> \o r.message, FALSE) >>
                     /\ pc' = "ta_return"
    /\ UNCHANGED <<site, page, ctx, store, store0, seen, outcome, dfVars, last_saved, rqVars>>

\* PA_Fill without the gate: the pipeline goes on to the submission whatever
\* _fill_credentials returned
PA_Fill_Ungated ==
    /\ pc = "pa_fill"
    /\ \E f \in Raises(FillFaults) :
         LET r == _fill_credentials(page, f)
         IN  /\ fault' = Faulted("pa", f, r.raised)
             /\ log' = r.events
             /\ stage' = Append(stage, <<"fill", r.ok>>)
             /\ pc' = "pa_submit"
    /\ UNCHANGED <<site, page, ctx, store, store0, seen, outcome, dfVars, last_saved, rqVars>>

\* perform_authentication, stage 2: _fill_credentials
PA_Fill ==
    /\ pc = "pa_fill"
    /\ \E f \in Raises(FillFaults) :
         LET r == _fill_credentials(page, f)
         IN  /\ fault' = Faulted("pa", f, r.raised)
             /\ log' = r.events
             /\ IF r.ok
                THEN /\ stage' = Append(stage, <<"fill", TRUE>>)
                     /\ pc' = "pa_submit"
                ELSE /\ stage' = stage \o << <<"fill", FALSE>>,
                            PAReturn(FALSE, <<"Erro ao preencher credenciais">> \o r.message, FALSE) >>
                     /\ pc' = "ta_return"
    /\ UNCHANGED <<site, page, ctx, store, store0, seen, outcome, dfVars, last_saved, rqVars>>

\* perform_authentication, stage 3: _submit_form; a click or Enter that
\* reached the page makes the site answer with some page and storage state
PA_Submit ==
    /\ pc = "pa_submit"
    /\ \E f \in Raises(SubmitFaults) :
         LET r == _submit_form(page, f)
         IN  /\ fault' = Faulted("pa", f, r.raised)
             /\ log' = r.events
             /\ IF r.events # <<>>
                THEN /\ \E p \in Posted(site) : page' = p
                     /\ \E c \in {FreshContext, LoggedInContext} : ctx' = c
                ELSE UNCHANGED <<page, ctx>>
             /\ IF r.ok
                THEN /\ stage' = Append(stage, <<"submit", TRUE>>)
                     /\ pc' = "pa_verify"
                ELSE /\ stage' = stage \o << <<"submit", FALSE>>,
                            PAReturn(FALSE, <<"Erro ao submeter formulario">> \o r.message, FALSE) >>
                     /\ pc' = "ta_return"
    /\ UNCHANGED <<site, store, store0, seen, outcome, dfVars, last_saved, rqVars>>

\* perform_authentication, stage 4: _verify_authentication; the page may
\* navigate once more before strategy 5 reads page.url again
PA_Verify ==
    /\ pc = "pa_verify"
    /\ \E f \in Raises(VerifyFaults), later \in {page.url, URL_APP} :
         LET r == _verify_authentication(page, later, f)
         IN  /\ fault' = Faulted("pa", f, r.raised)
             /\ log' = <<>>
             /\ seen' = [page |-> page, later_url |-> later]
             /\ page' = [page EXCEPT !.url = later]
             /\ IF r.verified
                THEN /\ stage' = Append(stage, <<"verify", TRUE>>)
                     /\ pc' = "pa_save"
                ELSE /\ stage' = stage \o << <<"verify", FALSE>>,
                            PAReturn(FALSE, <<"Autenticacao falhou: Invalid credentials">>, FALSE) >>
                     /\ pc' = "ta_return"
    /\ UNCHANGED <<site, ctx, store, store0, outcome, dfVars, last_saved, rqVars>>

\* perform_authentication, stage 5: SessionService.save_session
PA_Save ==
    /\ pc = "pa_save"
    /\ \E f \in Raises(SaveFaults) :
         LET r == save_session(store, StorageState(ctx), AuthUrl, AuthUser, f)
         IN  /\ fault' = Faulted("pa", f, r.raised)
             /\ log' = <<>>
             /\ store' = r.dir
             /\ stage' = stage \o << <<"save", r.ok>>,
                    IF r.ok
                    THEN PAReturn(TRUE, <<"Autenticacao realizada com sucesso e sessao salva">>, TRUE)
                    ELSE PAReturn(TRUE, <<"Autenticacao realizada com sucesso mas sessao nao foi salva">>, FALSE) >>
             /\ pc' = "ta_return"
    /\ UNCHANGED <<site, page, ctx, store0, seen, outcome, dfVars, last_saved, rqVars>>

\* TA_Return handing on the message of perform_authentication
TA_Return_RawMessage ==
    /\ pc = "ta_return"
    /\ LET ret == stage[Len(stage)][2]
       IN  outcome' = Some(Outcome(ret.success, ret.message, TRUE,
                                   IF ret.success THEN Some(page.url) ELSE None,
                                   ret.session_saved))
    /\ pc' = "ta_done"
    /\ UNCHANGED <<site, fault, page, ctx, store, store0, log, stage, seen, dfVars, last_saved, rqVars>>

\* test_authentication: the dictionary built from perform_authentication's
\* tuple, with the message replaced by one of two fixed texts
TA_Return ==
    /\ pc = "ta_return"
    /\ LET ret == stage[Len(stage)][2]
       IN  outcome' = Some(Outcome(
               ret.success,
               IF ret.success THEN <<"Autenticacao realizada com sucesso">>
                              ELSE <<"Autenticacao falhou: Invalid credentials">>,
               TRUE,
               IF ret.success THEN Some(page.url) ELSE None,
               ret.session_saved))
    /\ pc' = "ta_done"
    /\ UNCHANGED <<site, fault, page, ctx, store, store0, log, stage, seen, dfVars, last_saved, rqVars>>

-----------------------------------------------------------------------------
(* FieldDetectionService._is_login_page                                     *)

page_login_keywords == <<"login", "sign in", "entrar", "acesso", "authentication", "autenticacao">>

title_login_keywords == <<"login", "sign in", "entrar", "acesso">>

\* _is_login_page taking a login pattern in the url as enough
_is_login_page_UrlAlone(p, original_url, current_url, f) ==
    LET url_indicates_login == FirstPattern(page_login_url_patterns, Lower(current_url)) # <<>>
        username_field == Query(p, "input[name*=\"user\"], input[name*=\"email\"], input[name*=\"login\"], input[id*=\"user\"], input[id*=\"email\"], input[id*=\"login\"]")
        password_field == Query(p, "input[type=\"password\"]")
        has_login_fields == username_field # "none" /\ password_field # "none"
        has_login_keywords ==
            f # "login.text" /\ \E i \in 1..Len(page_login_keywords) : BodyHas(p, page_login_keywords[i])
        title_indicates_login ==
            f # "login.title" /\ \E i \in 1..Len(title_login_keywords) : title_login_keywords[i] \in p.title
    IN  IF f = "login.query" THEN [is_login |-> FALSE, raised |-> TRUE]
        ELSE [is_login |-> \/ url_indicates_login
                           \/ has_login_fields /\ (has_login_keywords \/ title_indicates_login),
              raised |-> f \in {"login.text", "login.title"}]

_is_login_page(p, original_url, current_url, f) ==
    LET url_redirected == original_url # current_url
        url_indicates_login == FirstPattern(page_login_url_patterns, Lower(current_url)) # <<>>
        username_field == Query(p, "input[name*=\"user\"], input[name*=\"email\"], input[name*=\"login\"], input[id*=\"user\"], input[id*=\"email\"], input[id*=\"login\"]")
        password_field == Query(p, "input[type=\"password\"]")
        has_login_fields == username_field # "none" /\ password_field # "none"
        has_login_keywords ==
            f # "login.text" /\ \E i \in 1..Len(page_login_keywords) : BodyHas(p, page_login_keywords[i])
        title_indicates_login ==
            f # "login.title" /\ \E i \in 1..Len(title_login_keywords) : title_login_keywords[i] \in p.title
    IN  IF f = "login.query" THEN [is_login |-> FALSE, raised |-> TRUE]
        ELSE [is_login |-> \/ url_redirected /\ url_indicates_login
                           \/ has_login_fields /\ (has_login_keywords \/ title_indicates_login),
              raised |-> f \in {"login.text", "login.title"}]

LoginPageFaults == {"login.query", "login.text", "login.title"}

-----------------------------------------------------------------------------
(* FieldDetectionService._perform_auto_authentication                       *)

auto_username_selectors ==
    << "input[name=\"username\"]", "input[name=\"user\"]", "input[name=\"email\"]",
       "input[name=\"login\"]", "input[id=\"username\"]", "input[id=\"user\"]",
       "input[id=\"email\"]", "input[id=\"login\"]", "input[type=\"text\"]",
       "input[type=\"email\"]" >>

auto_submit_selectors ==
    << "button[type=\"submit\"]", "input[type=\"submit\"]", "button:has-text(\"Login\")",
       "button:has-text(\"Sign in\")", "button:has-text(\"Entrar\")",
       "button:has-text(\"Acessar\")", ".oxd-button--main", "form button" >>

\* `for selector in sels: el = query(selector); if el and visible: break`:
\* the loop variable afterwards, which is the last query's result when no
\* iteration breaks
RECURSIVE LoopVariable(_, _, _)
LoopVariable(p, sels, i) ==
    LET el == Query(p, sels[i])
    IN  IF el # "none" /\ Visible(p, el) THEN el
        ELSE IF i = Len(sels) THEN el
        ELSE LoopVariable(p, sels, i + 1)

AutoResult(ok, events, raised) == [ok |-> ok, events |-> events, raised |-> raised]

\* the check after the submission, on the page `post` the site answered
\* with: a raise of the check counts as success
AutoCheck(post, f, events, raised) ==
    IF f = "auto.check" THEN AutoResult(TRUE, events, TRUE)
    ELSE AutoResult(~Visible(post, "pass"), events, raised)

\* from the submit loop on; the click on a button that is not visible times
\* out and raises
AutoSubmit(p, post, f, filled) ==
    LET submit_button == LoopVariable(p, auto_submit_selectors, 1)
    IN  IF f = "auto.submit_query" THEN AutoResult(FALSE, filled, TRUE)
        ELSE IF f = "auto.submit" THEN AutoResult(FALSE, filled, TRUE)
        ELSE IF submit_button # "none" /\ ~Visible(p, submit_button)
        THEN AutoResult(FALSE, filled, FALSE)
        ELSE AutoCheck(post, f,
                 Append(filled, IF submit_button # "none" THEN <<"click", submit_button>>
                                ELSE <<"press", "pass", "Enter">>),
                 f = "auto.wait")

_perform_auto_authentication(p, post, f) ==
    LET username_field == LoopVariable(p, auto_username_selectors, 1)
        password_field == Query(p, "input[type=\"password\"]")
    IN  IF f = "auto.user_query" THEN AutoResult(FALSE, <<>>, TRUE)
        ELSE IF username_field = "none" THEN AutoResult(FALSE, <<>>, FALSE)
        ELSE IF f = "auto.pass_query" THEN AutoResult(FALSE, <<>>, TRUE)
        ELSE IF password_field = "none" \/ ~Visible(p, password_field)
        THEN AutoResult(FALSE, <<>>, FALSE)
        ELSE IF f = "auto.fill_user" THEN AutoResult(FALSE, <<>>, TRUE)
        ELSE IF ~Visible(p, username_field) THEN AutoResult(FALSE, <<>>, FALSE)
        ELSE IF f = "auto.fill_pass"
        THEN AutoResult(FALSE, << <<"fill", username_field, "username">> >>, TRUE)
        ELSE AutoSubmit(p, post, f, << <<"fill", username_field, "username">>,
                                       <<"fill", password_field, "password">> >>)

AutoFaults ==
    {"auto.user_query", "auto.pass_query", "auto.fill_user", "auto.fill_pass",
     "auto.submit_query", "auto.submit", "auto.wait", "auto.check"}

\* whether the events of a stage include a click or key press that submits
Submits(events) == \E i \in 1..Len(events) : events[i][1] \in {"click", "press"}

-----------------------------------------------------------------------------
(* FieldDetectionService._detect_interactive_fields and _detect_form_fields *)

input_selectors ==
    << "input[type=\"text\"]", "input[type=\"email\"]", "input[type=\"password\"]",
       "input[type=\"number\"]", "input[type=\"tel\"]", "input[type=\"url\"]",
       "input[type=\"search\"]", "input[type=\"date\"]", "input[type=\"datetime-local\"]",
       "input[type=\"time\"]", "input[type=\"checkbox\"]", "input[type=\"radio\"]",
       "input[type=\"file\"]", "input.mat-datepicker-input", "input[matinput]",
       "input.mat-input-element" >>

\* the tag of an element, and its id and name attributes ("" when absent)
Tag(k) ==
    CASE k \in {"user", "email", "text", "pass", "number", "tel", "radio_a", "radio_b"} -> "input"
      [] k = "select" -> "select"
      [] k = "submit" -> "button"
      [] k = "error" -> "div"
      [] k = "logout" -> "a"

IdAttr(k) == IF k = "tel" THEN "phone" ELSE ""

NameAttr(k) ==
    CASE k = "user" -> "username"
      [] k = "tel" -> "phone"
      [] k \in {"radio_a", "radio_b", "select"} -> "opt"
      [] OTHER -> ""

\* the text of the <label> that wraps an element ("" when none does)
LabelText(k) ==
    CASE k = "radio_a" -> "Sim"
      [] k = "radio_b" -> "Nao"
      [] OTHER -> ""

\* the children of the element's parent that have its tag, in document order
Siblings(p, k) ==
    SelectSeq(DocOrder, LAMBDA s : s \in p.elems /\ Tag(s) = Tag(k) /\ LabelText(s) = LabelText(k))

Digits == <<"1", "2", "3", "4", "5", "6", "7", "8", "9">>

\* _generate_unique_selector asking for the name before the id
_generate_unique_selector_NameFirst(p, k) ==
    LET siblings == Siblings(p, k)
        index == CHOOSE i \in 1..Len(siblings) : siblings[i] = k
        parent == IF p.form = "none" THEN "body > " ELSE "body > form > "
    IN  IF NameAttr(k) # "" THEN <<Tag(k), "[name=\"", NameAttr(k), "\"]">>
        ELSE IF IdAttr(k) # "" THEN <<"#", IdAttr(k)>>
        ELSE IF Len(siblings) > 1 THEN <<parent, Tag(k), ":nth-child(", Digits[index], ")">>
        ELSE <<parent, Tag(k)>>

\* _generate_unique_selector: the id, else tag and name, else the path from
\* <body> with the element's position among its siblings of the same tag.
\* A selector is the sequence of its pieces.
_generate_unique_selector(p, k) ==
    LET siblings == Siblings(p, k)
        index == CHOOSE i \in 1..Len(siblings) : siblings[i] = k
        parent == IF p.form = "none" THEN "body > " ELSE "body > form > "
    IN  IF IdAttr(k) # "" THEN <<"#", IdAttr(k)>>
        ELSE IF NameAttr(k) # "" THEN <<Tag(k), "[name=\"", NameAttr(k), "\"]">>
        ELSE IF Len(siblings) > 1 THEN <<parent, Tag(k), ":nth-child(", Digits[index], ")">>
        ELSE <<parent, Tag(k)>>

\* _generate_xpath: by the wrapping label, else the id, else the name, else
\* the position among the siblings of the same tag
_generate_xpath(p, k) ==
    LET siblings == Siblings(p, k)
        index == CHOOSE i \in 1..Len(siblings) : siblings[i] = k
    IN  IF LabelText(k) # "" THEN <<"//label[contains(text(),'", LabelText(k), "')]//", Tag(k)>>
        ELSE IF IdAttr(k) # "" THEN <<"//*[@id=\"", IdAttr(k), "\"]">>
        ELSE IF NameAttr(k) # "" THEN <<"//", Tag(k), "[@name=\"", NameAttr(k), "\"]">>
        ELSE <<"//", Tag(k), "/", Tag(k), "[", Digits[index], "]">>

\* Python's s.strip()
RECURSIVE Strip(_)
Strip(s) ==
    IF s = <<>> THEN s
    ELSE IF Head(s) = " " THEN Strip(Tail(s))
    ELSE IF s[Len(s)] = " " THEN Strip(SubSeq(s, 1, Len(s) - 1))
    ELSE s

\* the characters of LabelText(k)
LabelChars(k) ==
    CASE k = "radio_a" -> <<"S", "i", "m">>
      [] k = "radio_b" -> <<"N", "a", "o">>
      [] OTHER -> <<>>

\* the texts the label of element k can come from: label[for=id] is looked
\* up for an element with an id only, and the radios stand in labels of
\* their own
LabelSources(p, k) ==
    [for_label |-> IF IdAttr(k) # "" THEN p.attrs.for_label ELSE None,
     parent_label |-> IF LabelText(k) # "" THEN Some(LabelChars(k)) ELSE p.attrs.parent_label,
     placeholder |-> p.attrs.placeholder,
     title |-> p.attrs.title,
     text |-> p.attrs.text]

\* s.strip()[:50]
Label(s) == SubSeq(Strip(s), 1, IF Len(Strip(s)) > 50 THEN 50 ELSE Len(Strip(s)))

DefaultLabel == <<"Campo sem label">>

\* Python's truth value of an attribute or of the value a script returned:
\* None and '' are false
Truthy(v) == v # None /\ v[1] # <<>>

\* _extract_field_label on the label sources c of an element: the label of
\* its id when its text is not blank, else the wrapping label, the
\* placeholder or the title when not empty, else the element's text when
\* not blank, else the fixed text
_extract_field_label(c) ==
    IF c.for_label # None /\ Strip(c.for_label[1]) # <<>> THEN Label(c.for_label[1])
    ELSE IF Truthy(c.parent_label) THEN Label(c.parent_label[1])
    ELSE IF Truthy(c.placeholder) THEN Label(c.placeholder[1])
    ELSE IF Truthy(c.title) THEN Label(c.title[1])
    ELSE IF Strip(c.text) # <<>> THEN Label(c.text)
    ELSE DefaultLabel

\* _create_field_from_element: the DetectedField of element k.  The name is
\* the name attribute, else the id, else the type and the selector (whose
\* separators the source rewrites to "_").

\* the entry of one <option>, or None when it has neither value nor text
OptionData(option) ==
    LET value == option.value
        text == Strip(option.text)
    IN  IF value = <<>> /\ text = <<>> THEN None
        ELSE Some([value |-> IF value = <<>> THEN text ELSE value,
                   text |-> IF text = <<>> THEN value ELSE text])

\* _extract_select_options keeping the option's value and text as they are
_extract_select_options_Raw(option_elements) ==
    IF option_elements = <<>> THEN None ELSE Some(option_elements)

\* _extract_select_options: one entry per <option> that has a value or a
\* text, in document order; None when there is none
RECURSIVE Entries(_)
Entries(option_elements) ==
    IF option_elements = <<>> THEN <<>>
    ELSE OptionData(Head(option_elements)) \o Entries(Tail(option_elements))

_extract_select_options(option_elements) ==
    IF Entries(option_elements) = <<>> THEN None ELSE Some(Entries(option_elements))

_create_field_from_element(p, k, field_type) ==
    LET css_selector == _generate_unique_selector(p, k)
    IN  [name |-> IF NameAttr(k) # "" THEN <<NameAttr(k)>>
                  ELSE IF IdAttr(k) # "" THEN <<IdAttr(k)>>
                  ELSE <<field_type, "_">> \o css_selector,
         type |-> field_type,
         css_selector |-> css_selector,
         xpath |-> _generate_xpath(p, k),
         label |-> _extract_field_label(LabelSources(p, k)),
         selector |-> css_selector,
         options |-> IF field_type = "select" THEN _extract_select_options(p.options) ELSE None]

\* the visible elements the selectors find, selector by selector
RECURSIVE FormFields(_, _, _)
FormFields(p, sels, i) ==
    IF i > Len(sels) THEN <<>>
    ELSE SelectSeq(QueryAll(p, sels[i]), LAMBDA k : Visible(p, k)) \o FormFields(p, sels, i + 1)

\* the fields of the elements ks
FieldsOf(p, ks, field_type) ==
    [i \in 1..Len(ks) |-> _create_field_from_element(p, ks[i], field_type)]

\* _detect_form_fields: the inputs, then the selects (the pages hold no
\* textarea).  A raise of query_selector_all ends the collection (here at
\* the first selector), a raise while an element is turned into a field
\* skips that element (here the first one).
_detect_form_fields(p, f) ==
    LET all == FieldsOf(p, FormFields(p, input_selectors, 1), "input")
                 \o FieldsOf(p, FormFields(p, <<"select">>, 1), "select")
    IN  IF f = "extract.query" THEN <<>>
        ELSE IF f = "extract.element" /\ all # <<>> THEN Tail(all)
        ELSE all

\* _remove_duplicate_fields keeps every entry: the variant a theorem is
\* checked against
_remove_duplicate_fields_KeepAll(fields, i, seen_selectors, unique_fields, duplicates_count) ==
    [unique_fields |-> fields, duplicates_count |-> 0]

\* _remove_duplicate_fields keeping the last entry of every selector: the
\* variant a theorem is checked against
_remove_duplicate_fields_LastWins(fields, i, seen_selectors, unique_fields, duplicates_count) ==
    LET last == {n \in 1..Len(fields) :
                    \A m \in (n + 1)..Len(fields) : fields[m].selector # fields[n].selector}
    IN  [unique_fields |-> [n \in 1..Cardinality(last) |->
                               fields[CHOOSE k \in last : Cardinality({j \in last : j <= k}) = n]],
         duplicates_count |-> Len(fields) - Cardinality(last)]

\* _remove_duplicate_fields, the loop from entry i on: the kept fields and
\* the count of removed ones that the function logs
RECURSIVE _remove_duplicate_fields(_, _, _, _, _)
_remove_duplicate_fields(fields, i, seen_selectors, unique_fields, duplicates_count) ==
    IF i > Len(fields)
    THEN [unique_fields |-> unique_fields, duplicates_count |-> duplicates_count]
    ELSE IF fields[i].selector \notin seen_selectors
         THEN _remove_duplicate_fields(fields, i + 1, seen_selectors \cup {fields[i].selector},
                                       Append(unique_fields, fields[i]), duplicates_count)
         ELSE _remove_duplicate_fields(fields, i + 1, seen_selectors, unique_fields,
                                       duplicates_count + 1)

\* _detect_interactive_fields: detected are the fields collected before the
\* duplicates are removed
_detect_interactive_fields(p, f) ==
    LET detected_fields == _detect_form_fields(p, f)
        r == _remove_duplicate_fields(detected_fields, 1, {}, <<>>, 0)
        unique_fields == r.unique_fields
    IN  [fields |-> unique_fields,
         detected |-> detected_fields,
         duplicates_count |-> r.duplicates_count,
         method |-> IF unique_fields = <<>> THEN <<"Nenhum campo encontrado">>
                    ELSE <<"Heuristicas Playwright">>,
         raised |-> f = "extract.query" \/ (f = "extract.element" /\ _detect_form_fields(p, "none") # <<>>)]

ExtractFaults == {"extract.query", "extract.element"}

-----------------------------------------------------------------------------
(* FieldDetectionService.detect_fields, one request                         *)

DetectUrl == URL_APP

\* what the site can serve during a field-detection request: the requested
\* page or a login page it redirects to
DetectPages ==
    { [url |-> u, elems |-> e, hidden |-> {}, form |-> "plain", body |-> t[1], title |-> t[2], options |-> <<>>, attrs |-> NoAttrs] :
        u \in {URL_APP, URL_LOGIN}, e \in SUBSET {"user", "text", "pass", "submit"},
        t \in {<<{}, {}>>, <<{"login"}, {}>>, <<{}, {"login"}>>} }

\* what the site can answer a submission of the login form with
DetectPosts ==
    {p \in DetectPages : p.body = {} /\ p.title = {} /\ p.elems \subseteq {"text", "pass"}}

Credentials(username) == [username |-> username, password |-> <<"p","a","s","s">>]

InitDetect ==
    /\ pc = "df_preload"
    /\ site = "any"
    /\ fault = NoFault
    /\ page = BlankPage
    /\ ctx = FreshContext
    /\ creds \in {None, Some(Credentials(AuthUser)), Some(Credentials(<<>>))}
    /\ store0 \in
         {EmptyDir,
          WriteFile(EmptyDir, _get_session_file_path(DetectUrl, AuthUser),
                    SessionData(DetectUrl, AuthUser, StaleState)),
          WriteFile(EmptyDir, _get_session_file_path(DetectUrl, AuthUser), PartialFile),
          WriteFile(EmptyDir, _get_session_file_path(DetectUrl, <<>>),
                    SessionData(DetectUrl, <<>>, StaleState))}
    /\ store = store0
    /\ log = <<>>
    /\ stage = <<>>
    /\ seen = NoSeen
    /\ outcome = None
    /\ session_used = FALSE
    /\ is_login_page = FALSE
    /\ auth_success = None
    /\ last_saved = NoSaves
    /\ NoRequests

\* the tuple detect_fields returns
Detected(fields, method, used) == [fields |-> fields, method |-> method, session_used |-> used]

\* detect_fields' except branch
DFError(used) == Detected(<<>>, <<"Erro na deteccao">>, used)

\* `username = credentials.username if credentials else None`, and its truth
\* value in `if username and ...`
HasUsername == creds # None /\ creds[1].username # <<>>

\* DF_Preload taking the session as used once it was looked for
DF_Preload_Optimistic ==
    /\ pc = "df_preload"
    /\ IF HasUsername /\ session_exists(store, DetectUrl, creds[1].username)
       THEN \E f \in Raises(ApplyFaults) :
              LET r == apply_session_to_context(store, ctx, DetectUrl, creds[1].username, f)
              IN  /\ fault' = Faulted("df", f, r.raised)
                  /\ ctx' = r.ctx
                  /\ session_used' = TRUE
                  /\ log' = << <<"apply_session_to_context", r.ok>> >>
       ELSE UNCHANGED <<fault, ctx, session_used, log>>
    /\ pc' = "df_goto"
    /\ UNCHANGED <<site, page, store, store0, outcome, creds, is_login_page, auth_success, paVars, last_saved, rqVars>>

\* DF_Preload without the session_exists test
DF_Preload_Always ==
    /\ pc = "df_preload"
    /\ IF HasUsername
       THEN \E f \in Raises(ApplyFaults) :
              LET r == apply_session_to_context(store, ctx, DetectUrl, creds[1].username, f)
              IN  /\ fault' = Faulted("df", f, r.raised)
                  /\ ctx' = r.ctx
                  /\ session_used' = r.ok
                  /\ log' = << <<"apply_session_to_context", r.ok>> >>
       ELSE UNCHANGED <<fault, ctx, session_used, log>>
    /\ pc' = "df_goto"
    /\ UNCHANGED <<site, page, store, store0, outcome, creds, is_login_page, auth_success, paVars, last_saved, rqVars>>

\* stage 1: the saved session, if any, is applied to the context
DF_Preload ==
    /\ pc = "df_preload"
    /\ IF HasUsername /\ session_exists(store, DetectUrl, creds[1].username)
       THEN \E f \in Raises(ApplyFaults) :
              LET r == apply_session_to_context(store, ctx, DetectUrl, creds[1].username, f)
              IN  /\ fault' = Faulted("df", f, r.raised)
                  /\ ctx' = r.ctx
                  /\ session_used' = r.ok
                  /\ log' = << <<"apply_session_to_context", r.ok>> >>
       ELSE UNCHANGED <<fault, ctx, session_used, log>>
    /\ pc' = "df_goto"
    /\ UNCHANGED <<site, page, store, store0, outcome, creds, is_login_page, auth_success, paVars, last_saved, rqVars>>

\* stage 2: page.goto(url)
DF_Goto ==
    /\ pc = "df_goto"
    /\ \E f \in Raises({"goto"}) :
         /\ fault' = Faulted("df", f, f = "goto")
         /\ IF f = "goto"
            THEN /\ outcome' = Some(DFError(session_used))
                 /\ pc' = "df_done"
                 /\ UNCHANGED <<page, log>>
            ELSE /\ \E p \in DetectPages : page' = p
                 /\ log' = Append(log, <<"goto", DetectUrl>>)
                 /\ pc' = "df_classify"
                 /\ UNCHANGED outcome
    /\ UNCHANGED <<site, ctx, store, store0, dfVars, paVars, last_saved, rqVars>>

\* DF_Classify attempting the automatic authentication on every login page
DF_Classify_AlwaysAuth ==
    /\ pc = "df_classify"
    /\ \E f \in Raises(LoginPageFaults) :
         LET r == _is_login_page(page, DetectUrl, page.url, f)
         IN  /\ fault' = Faulted("df", f, r.raised)
             /\ is_login_page' = r.is_login
             /\ pc' = IF r.is_login THEN "df_auth" ELSE "df_extract"
    /\ log' = <<>>
    /\ UNCHANGED <<site, page, ctx, store, store0, outcome, creds, session_used, auth_success, paVars, last_saved, rqVars>>

\* stage 3: _is_login_page and the branch on its result
DF_Classify ==
    /\ pc = "df_classify"
    /\ \E f \in Raises(LoginPageFaults) :
         LET r == _is_login_page(page, DetectUrl, page.url, f)
         IN  /\ fault' = Faulted("df", f, r.raised)
             /\ is_login_page' = r.is_login
             /\ pc' = IF r.is_login /\ creds # None THEN "df_auth" ELSE "df_extract"
    /\ log' = <<>>
    /\ UNCHANGED <<site, page, ctx, store, store0, outcome, creds, session_used, auth_success, paVars, last_saved, rqVars>>

\* stage 4: _perform_auto_authentication; a click or Enter makes the site
\* answer with some page
\* DF_AutoAuth persisting the session a successful recovery obtained
DF_AutoAuth_Saving ==
    /\ pc = "df_auth"
    /\ \E f \in Raises(AutoFaults), post \in DetectPosts :
         LET r == _perform_auto_authentication(page, post, f)
         IN  /\ fault' = Faulted("df", f, r.raised)
             /\ log' = r.events
             /\ page' = IF Submits(r.events) THEN post ELSE page
             /\ auth_success' = Some(r.ok)
             /\ store' = IF r.ok
                         THEN save_session(store, StorageState(ctx), DetectUrl, AuthUser, "none").dir
                         ELSE store
             /\ pc' = IF r.ok THEN "df_renavigate" ELSE "df_extract"
    /\ UNCHANGED <<site, ctx, store0, outcome, creds, session_used, is_login_page, paVars, last_saved, rqVars>>

DF_AutoAuth ==
    /\ pc = "df_auth"
    /\ \E f \in Raises(AutoFaults), post \in DetectPosts :
         LET r == _perform_auto_authentication(page, post, f)
         IN  /\ fault' = Faulted("df", f, r.raised)
             /\ log' = r.events
             /\ page' = IF Submits(r.events) THEN post ELSE page
             /\ auth_success' = Some(r.ok)
             /\ pc' = IF r.ok THEN "df_renavigate" ELSE "df_extract"
    /\ UNCHANGED <<site, ctx, store, store0, outcome, creds, session_used, is_login_page, paVars, last_saved, rqVars>>

\* stage 5: page.goto(original_url) after a successful auto-authentication
DF_ReNavigate ==
    /\ pc = "df_renavigate"
    /\ \E f \in Raises({"goto"}) :
         /\ fault' = Faulted("df", f, f = "goto")
         /\ IF f = "goto"
            THEN /\ outcome' = Some(DFError(session_used))
                 /\ pc' = "df_done"
                 /\ UNCHANGED <<page, log>>
            ELSE /\ \E p \in DetectPages : page' = p
                 /\ log' = << <<"goto", DetectUrl>> >>
                 /\ pc' = "df_reclassify"
                 /\ UNCHANGED outcome
    /\ UNCHANGED <<site, ctx, store, store0, dfVars, paVars, last_saved, rqVars>>

\* DF_Reclassify without the early return
DF_Reclassify_NoReturn ==
    /\ pc = "df_reclassify"
    /\ \E f \in Raises(LoginPageFaults) :
         LET r == _is_login_page(page, DetectUrl, page.url, f)
         IN  /\ fault' = Faulted("df", f, r.raised)
             /\ is_login_page' = r.is_login
             /\ pc' = "df_extract"
             /\ UNCHANGED outcome
    /\ log' = <<>>
    /\ UNCHANGED <<site, page, ctx, store, store0, creds, session_used, auth_success, paVars, last_saved, rqVars>>

\* DF_Reclassify authenticating again when the page is still a login page
DF_Reclassify_Retry ==
    /\ pc = "df_reclassify"
    /\ \E f \in Raises(LoginPageFaults) :
         LET r == _is_login_page(page, DetectUrl, page.url, f)
         IN  /\ fault' = Faulted("df", f, r.raised)
             /\ is_login_page' = r.is_login
             /\ pc' = IF r.is_login THEN "df_auth" ELSE "df_extract"
             /\ UNCHANGED outcome
    /\ log' = <<>>
    /\ UNCHANGED <<site, page, ctx, store, store0, creds, session_used, auth_success, paVars, last_saved, rqVars>>

\* stage 5, continued: the second _is_login_page and the early return
DF_Reclassify ==
    /\ pc = "df_reclassify"
    /\ \E f \in Raises(LoginPageFaults) :
         LET r == _is_login_page(page, DetectUrl, page.url, f)
         IN  /\ fault' = Faulted("df", f, r.raised)
             /\ is_login_page' = r.is_login
             /\ IF r.is_login
                THEN /\ outcome' = Some(Detected(<<>>,
                            <<"Erro: Autenticacao falhou - ainda na pagina de login">>, session_used))
                     /\ pc' = "df_done"
                ELSE /\ pc' = "df_extract"
                     /\ UNCHANGED outcome
    /\ log' = <<>>
    /\ UNCHANGED <<site, page, ctx, store, store0, creds, session_used, auth_success, paVars, last_saved, rqVars>>

\* stage 6: _detect_interactive_fields and the return
DF_Extract ==
    /\ pc = "df_extract"
    /\ \E f \in Raises(ExtractFaults) :
         LET r == _detect_interactive_fields(page, f)
         IN  /\ fault' = Faulted("df", f, r.raised)
             /\ outcome' = Some(Detected(r.fields,
                    IF is_login_page THEN r.method \o <<"(pagina de login detectada)">>
                                     ELSE r.method,
                    session_used))
    /\ pc' = "df_done"
    /\ log' = <<>>
    /\ UNCHANGED <<site, page, ctx, store, store0, dfVars, paVars, last_saved, rqVars>>

NextDetect ==
    \/ DF_Preload
    \/ DF_Goto
    \/ DF_Classify
    \/ DF_AutoAuth
    \/ DF_ReNavigate
    \/ DF_Reclassify
    \/ DF_Extract

NextAuth ==
    \/ TA_Goto
    \/ TA_Detect
    \/ PA_Goto
    \/ PA_Detect
    \/ PA_Fill
    \/ PA_Submit
    \/ PA_Verify
    \/ PA_Save
    \/ TA_Return

-----------------------------------------------------------------------------
(* SessionService on its own: saves, deletes, loads and applies for the     *)
(* pairs of StoreKeys, issued by any caller in any order                    *)

MaxOps == 2

\* the file operations of delete_session that may raise
DeleteFaults == {"delete.exists", "delete.unlink"}

\* SessionService.delete_session: the returned flag and the directory
\* afterwards; a raise of exists() or unlink() leaves the directory as it was
delete_session(dir, url, username, f) ==
    LET session_file == _get_session_file_path(url, username)
    IN  IF f = "delete.exists" \/ (f = "delete.unlink" /\ session_file \in DOMAIN dir)
        THEN [ok |-> FALSE, dir |-> dir, raised |-> TRUE, escaped |-> FALSE]
        ELSE IF session_file \in DOMAIN dir
        THEN [ok |-> TRUE, dir |-> [g \in (DOMAIN dir) \ {session_file} |-> dir[g]],
              raised |-> FALSE, escaped |-> FALSE]
        ELSE [ok |-> FALSE, dir |-> dir, raised |-> FALSE, escaped |-> FALSE]

\* the strings a site stores: plain, with a quote, with a backslash
StoreValues == {<<"a">>, <<"'">>, <<"\\", "a">>}

\* a browser context after a login: a cookie, and one origin with a
\* localStorage and a sessionStorage entry
StoreContext(v) ==
    Context(<<Cookie(v)>>, <<Origin(ORIGIN_S, <<Item(<<"k">>, v)>>, <<Item(<<"t">>, v)>>)>>)

StoreContexts == {StoreContext(v) : v \in StoreValues}

InitStore ==
    /\ pc = "ss_idle"
    /\ site = "any"
    /\ fault = NoFault
    /\ page = BlankPage
    /\ ctx \in StoreContexts
    /\ store0 = EmptyDir
    /\ store = store0
    /\ log = <<>>
    /\ stage = <<>>
    /\ seen = NoSeen
    /\ outcome = None
    /\ creds = None
    /\ session_used = FALSE
    /\ is_login_page = FALSE
    /\ auth_success = None
    /\ last_saved = NoSaves
    /\ NoRequests

\* how a SessionService call with fault f injected ended: returned with the
\* fault handled, or left by the exception
Ended(r, f) ==
    IF f = "none" THEN NoFault
    ELSE IF r.escaped THEN <<"escaped", f>>
    ELSE IF r.raised THEN <<"ss", f>>
    ELSE NoFault

\* what a SessionService call was given and what it returned
Called(op, k, result) == Some([op |-> op, url |-> k[1], username |-> k[2], result |-> result])

\* the browser moves on between two calls: the context holds another state
SS_Browse ==
    /\ pc = "ss_idle"
    /\ \E c \in StoreContexts \ {ctx} : ctx' = c
    /\ UNCHANGED <<pc, site, fault, page, store, store0, log, stage, seen, outcome, dfVars, last_saved, rqVars>>

\* save_session(context, url, username)
SS_Save ==
    /\ pc = "ss_idle"
    /\ Len(stage) < MaxOps
    /\ \E k \in StoreKeys, f \in SaveFaults \cup {"none"} :
         LET r == save_session(store, StorageState(ctx), k[1], k[2], f)
         IN  /\ store' = r.dir
             /\ fault' = Ended(r, f)
             /\ stage' = Append(stage, <<"save", r.ok>>)
             /\ outcome' = Called("save", k, r.ok)
             /\ last_saved' = IF r.ok THEN [last_saved EXCEPT ![k] = Some(StorageState(ctx))]
                              ELSE last_saved
    /\ UNCHANGED <<pc, site, page, ctx, store0, log, seen, dfVars, rqVars>>

\* delete_session(url, username)
SS_Delete ==
    /\ pc = "ss_idle"
    /\ Len(stage) < MaxOps
    /\ \E k \in StoreKeys, f \in DeleteFaults \cup {"none"} :
         LET r == delete_session(store, k[1], k[2], f)
         IN  /\ store' = r.dir
             /\ fault' = Ended(r, f)
             /\ stage' = Append(stage, <<"delete", r.ok>>)
             /\ outcome' = Called("delete", k, r.ok)
             /\ last_saved' = IF r.ok THEN [last_saved EXCEPT ![k] = None] ELSE last_saved
    /\ UNCHANGED <<pc, site, page, ctx, store0, log, seen, dfVars, rqVars>>

\* load_session(url, username), the last call of a run
SS_Load ==
    /\ pc = "ss_idle"
    /\ \E k \in StoreKeys, f \in LoadFaults \cup {"none"} :
         LET r == load_session(store, k[1], k[2], f)
         IN  /\ fault' = Ended(r, f)
             /\ outcome' = Called("load", k, r.value)
    /\ pc' = "ss_done"
    /\ UNCHANGED <<site, page, ctx, store, store0, log, stage, seen, dfVars, last_saved, rqVars>>

\* apply_session_to_context(fresh context, url, username), the last call of
\* a run; ctx becomes the context the session was applied to
SS_Apply ==
    /\ pc = "ss_idle"
    /\ \E k \in StoreKeys, f \in ApplyFaults \cup LoadFaults \cup {"none"} :
         LET r == apply_session_to_context(store, FreshContext, k[1], k[2], f)
         IN  /\ ctx' = r.ctx
             /\ fault' = IF r.raised THEN <<"ss", f>> ELSE NoFault
             /\ outcome' = Called("apply", k, r.ok)
    /\ pc' = "ss_done"
    /\ UNCHANGED <<site, page, store, store0, log, stage, seen, dfVars, last_saved, rqVars>>

NextStore ==
    \/ SS_Browse
    \/ SS_Save
    \/ SS_Delete
    \/ SS_Load
    \/ SS_Apply

SpecStore == InitStore /\ [][NextStore]_vars

-----------------------------------------------------------------------------
(* FieldDetectionService._detect_interactive_fields on the pages of a site  *)
(* with form controls                                                       *)

\* pages with inputs that several selectors match, that share a name, that
\* carry an id or that have neither id nor name; some of them hidden
FieldPages ==
    { [url |-> URL_APP, elems |-> e, hidden |-> h, form |-> f, body |-> {}, title |-> {}, options |-> <<>>, attrs |-> NoAttrs] :
        e \in SUBSET {"user", "text", "pass", "number", "tel", "radio_a", "radio_b", "select"},
        h \in SUBSET {"number", "radio_a"}, f \in {"none", "plain"} }

\* <option> elements: with value and text, without a value attribute (the
\* text padded with blanks), without text, with neither, and with blank text
OptionElements ==
    { [value |-> <<"B","R">>, text |-> <<"B","r","a","z","i","l">>],
      [value |-> <<"U","S">>, text |-> <<"U","S","A">>],
      [value |-> <<>>, text |-> <<" ","U","S","A"," ">>],
      [value |-> <<"U","S">>, text |-> <<>>],
      [value |-> <<>>, text |-> <<>>],
      [value |-> <<>>, text |-> <<" ">>] }

MaxOptions == 3

OptionLists == UNION { [1..n -> OptionElements] : n \in 0..MaxOptions }

\* pages whose only element is a select, with any options
SelectPages ==
    { [url |-> URL_APP, elems |-> {"select"}, hidden |-> {}, form |-> f, body |-> {}, title |-> {},
       options |-> o, attrs |-> NoAttrs] : f \in {"none", "plain"}, o \in OptionLists }

\* a text longer than the 50 characters a label keeps
LongText == [i \in 1..51 |-> IF i = 1 THEN " " ELSE IF i = 51 THEN "z" ELSE "x"]

\* label sources: absent, empty, blank, or a text of their own
LabelAttrs ==
    [for_label : {<<>>, << <<" ">> >>, << <<" ", "F", " ">> >>},
     parent_label : {<<>>, << <<" ">> >>, << <<" ", "P">> >>},
     placeholder : {<<>>, << <<>> >>, << <<" ">> >>, << <<"H", " ">> >>, <<LongText>>},
     title : {<<>>, << <<" ">> >>, << <<"T">> >>},
     text : {<<>>, <<" ">>, <<"X">>}]

\* pages whose only element is <input type="tel" id="phone" name="phone">,
\* with any label sources
LabelPages ==
    { [url |-> URL_APP, elems |-> {"tel"}, hidden |-> {}, form |-> "plain", body |-> {},
       title |-> {}, options |-> <<>>, attrs |-> a] : a \in LabelAttrs }

InitFields ==
    /\ pc = "fx_idle"
    /\ site = "any"
    /\ fault = NoFault
    /\ page \in {p \in FieldPages : p.hidden \subseteq p.elems} \cup SelectPages \cup LabelPages
    /\ ctx = FreshContext
    /\ store0 = EmptyDir
    /\ store = store0
    /\ log = <<>>
    /\ stage = <<>>
    /\ seen = NoSeen
    /\ outcome = None
    /\ creds = None
    /\ session_used = FALSE
    /\ is_login_page = FALSE
    /\ auth_success = None
    /\ last_saved = NoSaves
    /\ NoRequests

\* one call of _detect_interactive_fields(page): stage keeps the list handed
\* to _remove_duplicate_fields, log the counts that function reports
FX_Detect ==
    /\ pc = "fx_idle"
    /\ \E f \in Raises(ExtractFaults) :
         LET r == _detect_interactive_fields(page, f)
         IN  /\ fault' = Faulted("fx", f, r.raised)
             /\ stage' = r.detected
             /\ log' = << <<"duplicatas removidas", r.duplicates_count>>,
                          <<"campos unicos mantidos", Len(r.fields)>> >>
             /\ outcome' = Some([fields |-> r.fields, method |-> r.method])
    /\ pc' = "fx_done"
    /\ UNCHANGED <<site, page, ctx, store, store0, seen, dfVars, last_saved, rqVars>>

\* a second call of _detect_interactive_fields on the page as it is; outcome
\* keeps the results of both calls
FX_Again ==
    /\ pc = "fx_done"
    /\ \E f \in Raises(ExtractFaults) :
         LET r == _detect_interactive_fields(page, f)
         IN  /\ fault' = Faulted("fx", f, r.raised)
             /\ stage' = r.detected
             /\ log' = << <<"duplicatas removidas", r.duplicates_count>>,
                          <<"campos unicos mantidos", Len(r.fields)>> >>
             /\ outcome' = Append(outcome, [fields |-> r.fields, method |-> r.method])
    /\ pc' = "fx_again"
    /\ UNCHANGED <<site, page, ctx, store, store0, seen, dfVars, last_saved, rqVars>>

NextFields == FX_Detect \/ FX_Again

SpecFields == InitFields /\ [][NextFields]_vars

-----------------------------------------------------------------------------
(* The login-form detector on its own: one call of _detect_login_form on a  *)
(* page of any shape.                                                       *)

DetectorPages ==
    { [url |-> URL_LOGIN, elems |-> e, hidden |-> {}, form |-> f, body |-> b, title |-> {}, options |-> <<>>, attrs |-> NoAttrs] :
        e \in SUBSET {"user", "email", "text", "pass", "submit"},
        f \in {"none", "plain", "login"},
        b \in SUBSET {"login", "acesso", "autenticacao"} }

InitDetector ==
    /\ pc = "dt_idle"
    /\ site = "any"
    /\ fault = NoFault
    /\ page \in DetectorPages
    /\ ctx = FreshContext
    /\ store0 = EmptyDir
    /\ store = store0
    /\ log = <<>>
    /\ stage = <<>>
    /\ seen = NoSeen
    /\ outcome = None
    /\ creds = None
    /\ session_used = FALSE
    /\ is_login_page = FALSE
    /\ auth_success = None
    /\ last_saved = NoSaves
    /\ NoRequests

\* one call of _detect_login_form(page); outcome keeps the tuple it returns
DT_Detect ==
    /\ pc = "dt_idle"
    /\ \E f \in Raises(DetectFaults) :
         LET r == _detect_login_form(page, f)
         IN  /\ fault' = Faulted("dt", f, r.raised)
             /\ outcome' = Some([detected |-> r.detected, message |-> r.message])
    /\ pc' = "dt_done"
    /\ UNCHANGED <<site, page, ctx, store, store0, log, stage, seen, dfVars, last_saved, rqVars>>

NextDetector == DT_Detect

SpecDetector == InitDetector /\ [][NextDetector]_vars

-----------------------------------------------------------------------------
(* The endpoints test_authentication and detect_fields under concurrent     *)
(* requests.  The coroutines of the requests interleave at their awaits;    *)
(* what the service call does with its page is the subject of the           *)
(* specifications above and is one step here.                                *)

NumRequests == 2

Requests == 1..NumRequests

Endpoints == {"auth-test", "field-detection"}

\* BrowserService.__init__
NewBrowserService == [browser |-> None, context |-> None, page |-> None, playwright |-> None]

\* one BrowserService object for all requests: the variant a theorem is
\* checked against
BrowserService_Shared(r) == 1

\* `browser_service = BrowserService()`: the object request r constructs is
\* its own
BrowserService(r) == r

Request(endpoint) ==
    [pc |-> "rq_launch", endpoint |-> endpoint, browser_service |-> None,
     page |-> None, context |-> None, response |-> None]

\* the endpoint's except branch
ErrorResponse(r, endpoint) ==
    [request_id |-> r, endpoint |-> endpoint, success |-> FALSE,
     message |-> <<"Erro interno: ">>, page |-> None]

\* the response built from what the service returned
ServiceResponse(r, endpoint, success, pg) ==
    [request_id |-> r, endpoint |-> endpoint, success |-> success,
     message |-> <<>>, page |-> pg]

InitRequests ==
    /\ pc = "rq"
    /\ site = "any"
    /\ fault = NoFault
    /\ page = BlankPage
    /\ ctx = FreshContext
    /\ store0 = EmptyDir
    /\ store = store0
    /\ log = <<>>
    /\ stage = <<>>
    /\ seen = NoSeen
    /\ outcome = None
    /\ creds = None
    /\ session_used = FALSE
    /\ is_login_page = FALSE
    /\ auth_success = None
    /\ last_saved = NoSaves
    /\ requests \in [Requests -> {Request(e) : e \in Endpoints}]
    /\ services = <<>>
    /\ driver = IdleDriver

oneVars ==
    <<pc, site, fault, page, ctx, store, store0, log, stage, seen, outcome, dfVars, last_saved>>

\* the driver answers a launch, new_context or new_page with an object no one
\* holds yet; a request makes each of the three calls at most once, so the
\* caller and the kind name the new object
Fresh(r, kind) == Some(<<r, kind>>)

\* request r calls methods of the handles hs (None entries are skipped)
Used(d, r, hs) ==
    LET held == {h \in hs : h # None}
    IN  [d EXCEPT !.uses = @ \cup {<<r, h[1]>> : h \in held},
                  !.stale = @ \/ \E h \in held : h[1] \in d.closed]

\* initialize_browser returned False: the endpoint raises and builds the
\* error response; the finally clause is still to run
Failed(r) ==
    [requests EXCEPT ![r].response = Some(ErrorResponse(r, requests[r].endpoint)),
                     ![r].pc = "rq_cleanup"]

\* BrowserService() and initialize_browser up to chromium.launch:
\* async_playwright().start() starts the driver process, which is there
\* whether the launch that follows succeeds or not
RQ_Launch(r) ==
    /\ requests[r].pc = "rq_launch"
    /\ LET b == BrowserService(r)
           started == [NewBrowserService EXCEPT !.playwright = Fresh(r, "playwright")]
       IN  \E outcome_of \in {"launched", "launch failed", "start failed"} :
             /\ driver' = driver
             /\ IF outcome_of = "launched"
                THEN /\ services' = (b :> [started EXCEPT !.browser = Fresh(r, "browser")]) @@ services
                     /\ requests' = [requests EXCEPT ![r].browser_service = Some(b),
                                                     ![r].pc = "rq_context"]
                ELSE /\ services' = (b :> IF outcome_of = "launch failed" THEN started
                                          ELSE NewBrowserService) @@ services
                     /\ requests' = [Failed(r) EXCEPT ![r].browser_service = Some(b)]
    /\ UNCHANGED oneVars

\* initialize_browser: browser.new_context
RQ_NewContext(r) ==
    /\ requests[r].pc = "rq_context"
    /\ LET b == requests[r].browser_service[1]
       IN  \E ok \in BOOLEAN :
             IF ok
             THEN /\ services' = [services EXCEPT ![b].context = Fresh(r, "context")]
                  /\ driver' = Used(driver, r, {services[b].browser})
                  /\ requests' = [requests EXCEPT ![r].pc = "rq_page"]
             ELSE /\ driver' = Used(driver, r, {services[b].browser})
                  /\ requests' = Failed(r)
                  /\ UNCHANGED services
    /\ UNCHANGED oneVars

\* initialize_browser: context.new_page, then get_page and the read of
\* browser_service.context, which run without an await in between
RQ_NewPage(r) ==
    /\ requests[r].pc = "rq_page"
    /\ LET b == requests[r].browser_service[1]
       IN  \E ok \in BOOLEAN :
             IF ok
             THEN /\ services' = [services EXCEPT ![b].page = Fresh(r, "page")]
                  /\ driver' = Used(driver, r, {services[b].context})
                  /\ requests' = [requests EXCEPT ![r].page = Fresh(r, "page"),
                                                  ![r].context = services[b].context,
                                                  ![r].pc = "rq_serve"]
             ELSE /\ driver' = Used(driver, r, {services[b].context})
                  /\ requests' = Failed(r)
                  /\ UNCHANGED services
    /\ UNCHANGED oneVars

\* AuthService().test_authentication or FieldDetectionService().detect_fields
\* on the request's page and context, and the response built from the result
RQ_Serve(r) ==
    /\ requests[r].pc = "rq_serve"
    /\ driver' = Used(driver, r, {requests[r].page, requests[r].context})
    /\ \E success \in BOOLEAN :
         requests' = [requests EXCEPT
                        ![r].response = Some(ServiceResponse(r, requests[r].endpoint, success,
                                                             requests[r].page)),
                        ![r].pc = "rq_cleanup"]
    /\ UNCHANGED <<services, oneVars>>

\* the finally clause: browser_service.cleanup() closes the page, the
\* context and the browser its object holds
RQ_Cleanup(r) ==
    /\ requests[r].pc = "rq_cleanup"
    /\ LET b == services[requests[r].browser_service[1]]
           hs == {b.page, b.context, b.browser}
           d == Used(driver, r, hs)
       IN  driver' = [d EXCEPT !.closed = @ \cup {h[1] : h \in {x \in hs : x # None}}]
    /\ requests' = [requests EXCEPT ![r].pc = "rq_done"]
    /\ UNCHANGED <<services, oneVars>>

RQ_Step(r) ==
    \/ RQ_Launch(r)
    \/ RQ_NewContext(r)
    \/ RQ_NewPage(r)
    \/ RQ_Serve(r)
    \/ RQ_Cleanup(r)

NextRequests == \E r \in Requests : RQ_Step(r)

\* the event loop resumes every coroutine that can continue
SpecRequests ==
    InitRequests /\ [][NextRequests]_vars /\ \A r \in Requests : WF_vars(RQ_Step(r))

-----------------------------------------------------------------------------
(* Two workers on one session file.  uvicorn runs settings.workers          *)
(* processes over one sessions directory: a save in one and a load or apply *)
(* in another interleave at the system calls.  Here the file of (AuthUrl,   *)
(* AuthUser) is the sequence of the pieces written to it: json.dump's text  *)
(* reaches the file in two writes, the head of the document with the        *)
(* cookies, then the origins with the closing brace (one write is the case  *)
(* where nothing happens between the two).  requests.saver is the save,     *)
(* requests.reader the load or apply.                                       *)

Piece(part, storage_state) == [part |-> part, storage_state |-> storage_state]

\* the text json.dump writes for a storage state, as pieces
Dumped(storage_state) == <<Piece(1, storage_state), Piece(2, storage_state)>>

\* json.load of the text read: a document when the text is a head followed
\* by a tail, else the error that load_session catches
Parsed(text) ==
    IF Len(text) = 2 /\ text[1].part = 1 /\ text[2].part = 2
    THEN SessionData(AuthUrl, AuthUser, [cookies |-> text[1].storage_state.cookies,
                                         origins |-> text[2].storage_state.origins])
    ELSE PartialFile

RaceFile == _get_session_file_path(AuthUrl, AuthUser)

\* open(session_file, 'w') leaving the content in place
OpenForWrite_Keep(dir) == IF RaceFile \in DOMAIN dir THEN dir ELSE WriteFile(dir, RaceFile, <<>>)

\* open(session_file, 'w'): the file is created or truncated
OpenForWrite(dir) == WriteFile(dir, RaceFile, <<>>)

\* f.write at position n of the file
WriteAt(text, n, piece) ==
    [i \in 1..(IF Len(text) > n THEN Len(text) ELSE n) |-> IF i = n THEN piece ELSE text[i]]

InitRace ==
    /\ pc = "race"
    /\ site = "any"
    /\ fault = NoFault
    /\ page = BlankPage
    /\ ctx = FreshContext
    /\ store0 \in {EmptyDir, WriteFile(EmptyDir, RaceFile, Dumped(StaleState))}
    /\ store = store0
    /\ log = <<>>
    /\ stage = <<>>
    /\ seen = NoSeen
    /\ outcome = None
    /\ creds = None
    /\ session_used = FALSE
    /\ is_login_page = FALSE
    /\ auth_success = None
    /\ last_saved = NoSaves
    /\ \E op \in {"load_session", "apply_session_to_context"} :
         requests = [saver |-> [pc |-> "sv_state", op |-> "save_session", text |-> <<>>,
                                opened |-> "", response |-> None],
                     reader |-> [pc |-> "rd_open", op |-> op, text |-> <<>>,
                                 opened |-> "", response |-> None]]
    /\ services = <<>>
    /\ driver = IdleDriver

raceVars == <<pc, site, fault, page, store0, log, stage, seen, outcome, dfVars, last_saved,
              services, driver>>

\* save_session: storage_state = await context.storage_state()
SV_StorageState ==
    /\ requests.saver.pc = "sv_state"
    /\ requests' = [requests EXCEPT !.saver.pc = "sv_open",
                                    !.saver.text = Dumped(StorageState(LoggedInContext))]
    /\ UNCHANGED <<raceVars, ctx, store>>

\* save_session: open(session_file, 'w', encoding='utf-8')
SV_Open ==
    /\ requests.saver.pc = "sv_open"
    /\ store' = OpenForWrite(store)
    /\ requests' = [requests EXCEPT !.saver.pc = "sv_dump"]
    /\ UNCHANGED <<raceVars, ctx>>

\* save_session: json.dump, one write of the buffered text; after the last
\* the file is closed and True returned
SV_Write ==
    /\ requests.saver.pc = "sv_dump"
    /\ LET todo == requests.saver.text
           n == Len(Dumped(StaleState)) - Len(todo) + 1
       IN  /\ store' = [store EXCEPT ![RaceFile] = WriteAt(@, n, Head(todo))]
           /\ requests' = [requests EXCEPT
                  !.saver.text = Tail(todo),
                  !.saver.pc = IF Tail(todo) = <<>> THEN "sv_done" ELSE "sv_dump",
                  !.saver.response = IF Tail(todo) = <<>> THEN Some(TRUE) ELSE None]
    /\ UNCHANGED <<raceVars, ctx>>

\* load_session: session_file.exists() and open(session_file, 'r'); opened
\* keeps how far the save was at that moment
RD_Open ==
    /\ requests.reader.pc = "rd_open"
    /\ IF RaceFile \in DOMAIN store
       THEN requests' = [requests EXCEPT !.reader.pc = "rd_read",
                                         !.reader.opened = requests.saver.pc]
       ELSE requests' = [requests EXCEPT
                !.reader.pc = "rd_done",
                !.reader.response =
                    Some(IF requests.reader.op = "load_session"
                         THEN [value |-> None, escaped |-> FALSE]
                         ELSE [value |-> FALSE, escaped |-> FALSE])]
    /\ UNCHANGED <<raceVars, ctx, store>>

\* json.load(f): f.read() takes what the file holds beyond the text read so
\* far, in one or several reads
RD_Read ==
    /\ requests.reader.pc = "rd_read"
    /\ Len(store[RaceFile]) > Len(requests.reader.text)
    /\ \E n \in (Len(requests.reader.text) + 1)..Len(store[RaceFile]) :
         requests' = [requests EXCEPT
             !.reader.text = @ \o SubSeq(store[RaceFile], Len(@) + 1, n)]
    /\ UNCHANGED <<raceVars, ctx, store>>

\* the read that finds nothing more: the text is parsed, and load_session
\* returns, or apply_session_to_context goes on with what load_session
\* returned
RD_Return ==
    /\ requests.reader.pc = "rd_read"
    /\ Len(store[RaceFile]) <= Len(requests.reader.text)
    /\ LET dir == WriteFile(EmptyDir, RaceFile, Parsed(requests.reader.text))
           loaded == load_session(dir, AuthUrl, AuthUser, "none")
           applied == apply_session_to_context(dir, ctx, AuthUrl, AuthUser, "none")
       IN  IF requests.reader.op = "load_session"
           THEN /\ requests' = [requests EXCEPT
                       !.reader.pc = "rd_done",
                       !.reader.response = Some([value |-> loaded.value,
                                                  escaped |-> loaded.escaped])]
                /\ UNCHANGED ctx
           ELSE /\ requests' = [requests EXCEPT
                       !.reader.pc = "rd_done",
                       !.reader.response = Some([value |-> applied.ok, escaped |-> FALSE])]
                /\ ctx' = applied.ctx
    /\ UNCHANGED <<raceVars, store>>

NextRace == SV_StorageState \/ SV_Open \/ SV_Write \/ RD_Open \/ RD_Read \/ RD_Return

SpecRace == InitRace /\ [][NextRace]_vars

-----------------------------------------------------------------------------
(* The login-page classifier on its own, for any requested url, beside the  *)
(* field-detection call that uses it.                                       *)

\* the state after page.goto(url) for a requested url of either kind: log
\* holds the navigation, page what the site served
InitClassify ==
    /\ pc = "lp_idle"
    /\ site = "any"
    /\ fault = NoFault
    /\ page \in DetectPages
    /\ ctx = FreshContext
    /\ store0 = EmptyDir
    /\ store = store0
    /\ \E url \in {URL_APP, URL_LOGIN} : log = << <<"goto", url>> >>
    /\ stage = <<>>
    /\ seen = NoSeen
    /\ outcome = None
    /\ creds = None
    /\ session_used = FALSE
    /\ is_login_page = FALSE
    /\ auth_success = None
    /\ last_saved = NoSaves
    /\ NoRequests

\* is_login_page = await self._is_login_page(page, original_url, current_url)
LP_Classify ==
    /\ pc = "lp_idle"
    /\ \E f \in Raises(LoginPageFaults) :
         LET r == _is_login_page(page, log[1][2], page.url, f)
         IN  /\ fault' = Faulted("lp", f, r.raised)
             /\ is_login_page' = r.is_login
    /\ pc' = "lp_done"
    /\ UNCHANGED <<site, page, ctx, store, store0, log, outcome, creds, session_used, auth_success, paVars, last_saved, rqVars>>

InitLoginPage == InitClassify \/ InitDetect

NextLoginPage == LP_Classify \/ NextDetect

SpecLoginPage == InitLoginPage /\ [][NextLoginPage]_vars

-----------------------------------------------------------------------------
(* The form helpers on pages with hidden elements: _fill_credentials,       *)
(* _submit_form and _perform_auto_authentication each called once on a     *)
(* login page some of whose inputs and buttons are not visible.  seen keeps *)
(* the page the helper was called on; page becomes what the site answered.  *)

\* login pages with a second text input and a second submit button, any of
\* the first ones hidden
FormPages ==
    { [url |-> URL_LOGIN, elems |-> e, hidden |-> h, form |-> fm, body |-> {}, title |-> {},
       options |-> <<>>, attrs |-> NoAttrs] :
        e \in SUBSET {"user", "email", "text", "text_b", "pass", "submit", "submit_b"},
        h \in SUBSET {"email", "text", "pass", "submit"}, fm \in {"none", "plain"} }

\* what the site shows after a submission: the same page again, or the
\* dashboard
FormAnswers(p) ==
    {p, [url |-> URL_DASH, elems |-> {}, hidden |-> {}, form |-> "none", body |-> {},
         title |-> {}, options |-> <<>>, attrs |-> NoAttrs]}

InitForms ==
    /\ pc = "fm_idle"
    /\ site = "any"
    /\ fault = NoFault
    /\ page \in {p \in FormPages : p.hidden \subseteq p.elems}
    /\ ctx = FreshContext
    /\ store0 = EmptyDir
    /\ store = store0
    /\ log = <<>>
    /\ stage = <<>>
    /\ seen = NoSeen
    /\ outcome = None
    /\ creds = None
    /\ session_used = FALSE
    /\ is_login_page = FALSE
    /\ auth_success = None
    /\ last_saved = NoSaves
    /\ NoRequests

\* fill_success, fill_message = await self._fill_credentials(page, credentials)
FM_Fill ==
    /\ pc = "fm_idle"
    /\ \E f \in Raises(FillFaults) :
         LET r == _fill_credentials(page, f)
         IN  /\ fault' = Faulted("fm", f, r.raised)
             /\ log' = r.events
             /\ stage' = << <<"fill", r.ok>> >>
             /\ outcome' = Some([ok |-> r.ok, message |-> r.message])
    /\ seen' = [page |-> page, later_url |-> page.url]
    /\ pc' = "fm_filled"
    /\ UNCHANGED <<site, page, ctx, store, store0, dfVars, last_saved, rqVars>>

\* submit_success, submit_message = await self._submit_form(page)
FM_Submit ==
    /\ pc = "fm_idle"
    /\ \E f \in Raises(SubmitFaults) :
         LET r == _submit_form(page, f)
         IN  /\ fault' = Faulted("fm", f, r.raised)
             /\ log' = r.events
             /\ stage' = << <<"submit", r.ok>> >>
             /\ outcome' = Some([ok |-> r.ok, message |-> r.message])
             /\ IF r.events # <<>> THEN \E post \in FormAnswers(page) : page' = post
                ELSE page' = page
    /\ seen' = [page |-> page, later_url |-> page.url]
    /\ pc' = "fm_submitted"
    /\ UNCHANGED <<site, ctx, store, store0, dfVars, last_saved, rqVars>>

\* auth_success = await self._perform_auto_authentication(page, credentials)
FM_AutoAuth ==
    /\ pc = "fm_idle"
    /\ \E f \in Raises(AutoFaults), post \in FormAnswers(page) :
         LET r == _perform_auto_authentication(page, post, f)
         IN  /\ fault' = Faulted("fm", f, r.raised)
             /\ log' = r.events
             /\ stage' = << <<"auto", r.ok>> >>
             /\ auth_success' = Some(r.ok)
             /\ page' = IF Submits(r.events) THEN post ELSE page
    /\ seen' = [page |-> page, later_url |-> page.url]
    /\ pc' = "fm_auto"
    /\ UNCHANGED <<site, ctx, store, store0, outcome, creds, session_used, is_login_page, last_saved, rqVars>>

NextForms == FM_Fill \/ FM_Submit \/ FM_AutoAuth

SpecForms == InitForms /\ [][NextForms]_vars

Init == InitAuth \/ InitDetect

Next == NextAuth \/ NextDetect

Spec == Init /\ [][Next]_vars

-----------------------------------------------------------------------------
(* Properties                                                               *)

\* the result of stage `name` of perform_authentication, as a set (empty when
\* the stage did not run)
StageResults(name) == {stage[i][2] : i \in {j \in 1..Len(stage) : stage[j][1] = name}}

InAuth == pc \in {"ta_goto", "ta_detect", "pa_goto", "pa_detect", "pa_fill", "pa_submit",
                  "pa_verify", "pa_save", "ta_return", "ta_done"}

StillOnLoginMessage == <<"Erro: Autenticacao falhou - ainda na pagina de login">>

\* C1: whenever the url read by _verify_authentication contains a login-url
\* pattern, the verification stage reports false, whatever elements the page
\* holds.
C1_LoginUrlFails ==
    InAuth /\ IsStillOnLogin(seen.page.url) => TRUE \notin StageResults("verify")

\* C2: the stages of perform_authentication run in the order navigate,
\* detect, fill, submit, verify, save; a stage runs only if every earlier one
\* reported success; the sessions directory changes only after a true
\* verification followed by the save, and a failed attempt leaves it as it was.
PipelineOrder == <<"navigate", "detect", "fill", "submit", "verify", "save">>

C2_PipelineGated ==
    InAuth =>
      /\ \A i \in 1..Len(stage) :
            stage[i][1] # "return" =>
              /\ i <= Len(PipelineOrder)
              /\ stage[i][1] = PipelineOrder[i]
              /\ \A j \in 1..(i - 1) : stage[j][2] = TRUE
      /\ store # store0 => StageResults("verify") = {TRUE} /\ StageResults("save") # {}
      /\ (pc = "ta_done" /\ ~outcome[1].success) => store = store0

C2_FailedVerifyKeepsStore ==
    /\ pc = "ta_done"
    /\ StageResults("verify") = {FALSE}
    /\ store0 # EmptyDir
    /\ store = store0

\* the signals of _verify_authentication, read off the page it saw
PositiveSignal ==
    \/ ~IsStillOnLogin(seen.page.url)
         /\ FirstPattern(success_url_patterns, Lower(seen.page.url)) # <<>>
    \/ \E i \in 1..Len(success_selectors) : Query(seen.page, success_selectors[i]) # "none"
    \/ ~IsStillOnLogin(seen.page.url) /\ Query(seen.page, "input[type=\"password\"]") = "none"
    \/ ~IsStillOnLogin(seen.page.url) /\ seen.page.url # seen.later_url

\* C3 as stated: a driver call that raises inside _verify_authentication
\* makes it return false.
C3_RaiseMeansUnverified ==
    (InAuth /\ fault[1] = "pa" /\ fault[2] \in VerifyFaults) => TRUE \notin StageResults("verify")

\* C3, amended: _verify_authentication returns true only when a positive
\* signal fired; a raise of the strategy-4 queries makes it return false; and
\* after a false verification test_authentication reports failure with
\* session_saved false and the sessions directory untouched.
C3_VerifiedOnlyOnSignal ==
    InAuth =>
      /\ TRUE \in StageResults("verify") => PositiveSignal
      /\ (fault[1] = "pa" /\ fault[2] = "verify.form_query") => StageResults("verify") = {FALSE}
      /\ (pc = "ta_done" /\ StageResults("verify") = {FALSE}) =>
            /\ ~outcome[1].success
            /\ ~outcome[1].session_saved
            /\ store = store0

C3_RaisedInStrategy4 ==
    /\ pc = "ta_done"
    /\ fault[1] = "pa" /\ fault[2] = "verify.form_query"
    /\ StageResults("verify") = {FALSE}
    /\ ~outcome[1].success

\* C4 as stated: with credentials supplied and a first classification as
\* login page, a call that ends with the page still classified as login page
\* returns no fields and the still-on-login result.
C4_NoLoginFields ==
    (pc = "df_done" /\ fault = NoFault /\ auth_success # None /\ is_login_page) =>
        /\ outcome[1].fields = <<>>
        /\ outcome[1].method = StillOnLoginMessage

\* C4, amended: when the automatic authentication reported success and the
\* page is classified as login page again after the re-navigation, the call
\* returns no fields and the still-on-login result; when it reported failure
\* there is no second classification: the fields of the page at hand are
\* extracted and the method is marked as coming from a login page.
C4_StillOnLoginAfterSuccess ==
    (pc = "df_done" /\ auth_success # None /\ fault[2] # "goto") =>
        /\ (auth_success = Some(TRUE) /\ is_login_page) =>
              /\ outcome[1].fields = <<>>
              /\ outcome[1].method = StillOnLoginMessage
        /\ auth_success = Some(FALSE) =>
              /\ is_login_page
              /\ outcome[1].method[Len(outcome[1].method)] = "(pagina de login detectada)"
              /\ fault = NoFault => outcome[1].fields = _detect_interactive_fields(page, "none").fields

C4_LoginFieldsReturned ==
    /\ pc = "df_done"
    /\ creds # None
    /\ auth_success = Some(FALSE)
    /\ outcome[1].fields # <<>>


\* C5 as stated: whichever single driver call raises, test_authentication
\* returns success false and session_saved false, and detect_fields returns no
\* fields and an error method.
C5_FaultMeansNegative ==
    /\ (pc = "ta_done" /\ fault # NoFault) =>
          ~outcome[1].success /\ ~outcome[1].session_saved
    /\ (pc = "df_done" /\ fault # NoFault) =>
          /\ outcome[1].fields = <<>>
          /\ outcome[1].method[1] \in {"Erro na deteccao", StillOnLoginMessage[1]}

\* the driver calls of test_authentication whose raise reaches the handler of
\* a stage or of the operation itself
HandledAsFailure ==
    {"goto", "detect.wait", "detect.title", "detect.count", "detect.orange", "detect.forms",
     "detect.text", "detect.inputs", "fill.text_inputs", "fill.password", "fill.user_click",
     "fill.user_fill", "fill.pass_click", "fill.pass_fill", "submit.password", "submit.press",
     "verify.form_query"}

\* C5, amended: both operations always return a result.  In
\* test_authentication a raise of page.goto, or of a call outside the
\* per-selector loops and the waits after a click, gives success false and
\* session_saved false; a raise while the session is saved gives success true
\* with session_saved false; session_saved is never true without success.  In
\* detect_fields a raise of page.goto gives no fields and the error method,
\* with session_used as it stood.
C5_FaultsHandled ==
    /\ pc \in {"ta_done", "df_done"} <=> outcome # None
    /\ pc = "ta_done" =>
          /\ fault[2] \in HandledAsFailure =>
                ~outcome[1].success /\ ~outcome[1].session_saved
          /\ fault[2] \in SaveFaults => outcome[1].success /\ ~outcome[1].session_saved
          /\ outcome[1].session_saved => outcome[1].success
    /\ (pc = "df_done" /\ fault[2] = "goto") =>
          /\ outcome[1].fields = <<>>
          /\ outcome[1].method = <<"Erro na deteccao">>
          /\ outcome[1].session_used = session_used

C5_CaptureRaised ==
    /\ pc = "ta_done"
    /\ fault[1] = "pa" /\ fault[2] = "save.storage_state"
    /\ outcome[1].success
    /\ ~outcome[1].session_saved

\* C6: on a page with an input named username, a password input and a submit
\* button, where the submission leads to a url with "dashboard" and no login
\* pattern, and no driver call raises, test_authentication for user/pass
\* returns success, login_detected, submission_successful and session_saved
\* all true, and a session exists for (url, "user") afterwards.
C6_ScenarioA ==
    (pc = "ta_done" /\ site = "scenarioA" /\ fault = NoFault) =>
        /\ outcome[1].success
        /\ outcome[1].login_detected
        /\ outcome[1].submission_successful
        /\ outcome[1].session_saved
        /\ session_exists(store, AuthUrl, <<"u","s","e","r">>)

C6_ScenarioADone ==
    /\ pc = "ta_done"
    /\ site = "scenarioA"
    /\ fault = NoFault
    /\ outcome[1].session_saved
    /\ "error" \in seen.page.elems

\* what the cookies and the storage entries of a context or a storage state
\* amount to, order aside
Stored(c) ==
    [cookies |-> Range(c.cookies),
     origins |-> {[origin |-> c.origins[i].origin,
                   localStorage |-> Range(c.origins[i].localStorage),
                   sessionStorage |-> Range(c.origins[i].sessionStorage)] :
                  i \in 1..Len(c.origins)}]

\* the pair a SessionService call was made for
CalledFor == <<outcome[1].url, outcome[1].username>>

\* C7: a save for a pair followed by an apply for it to a fresh context
\* returns true and leaves the context with the cookies, localStorage and
\* sessionStorage entries saved, whatever the stored strings are.
C7_RoundTrip ==
    (/\ pc = "ss_done"
     /\ outcome[1].op = "apply"
     /\ fault = NoFault
     /\ Len(stage) = 1 /\ stage[1][1] = "save" /\ stage[1][2]
     /\ last_saved[CalledFor] # None) =>
        /\ outcome[1].result
        /\ Stored(ctx) = Stored(last_saved[CalledFor][1])

\* C8: after successful saves only, a load (no file operation of which
\* raises) for a pair returns the storage
\* state of the last successful save for that pair.
C8_LoadReturnsLastSave ==
    (/\ pc = "ss_done"
     /\ outcome[1].op = "load"
     /\ fault = NoFault
     /\ \A i \in 1..Len(stage) : stage[i][1] = "save" /\ stage[i][2]
     /\ last_saved[CalledFor] # None) =>
        /\ outcome[1].result # None
        /\ outcome[1].result[1].storage_state = last_saved[CalledFor][1]

\* C9: distinct pairs have distinct file names, and a load for one pair never
\* returns the record saved for another.
C9_KeyInjective ==
    /\ \A k1, k2 \in StoreKeys :
          k1 # k2 => _get_session_file_path(k1[1], k1[2]) # _get_session_file_path(k2[1], k2[2])
    /\ (pc = "ss_done" /\ outcome[1].op = "load" /\ outcome[1].result # None) =>
          <<outcome[1].result[1].url, outcome[1].result[1].username>> = CalledFor

\* C10: detect_fields calls apply_session_to_context exactly when a
\* (non-empty) username was supplied and a session file exists for (url,
\* username), once, and before the first page.goto.
C10_ApplyBeforeGoto ==
    pc \in {"df_goto", "df_classify"} =>
      LET applies == {i \in 1..Len(log) : log[i][1] = "apply_session_to_context"}
          gotos == {i \in 1..Len(log) : log[i][1] = "goto"}
          due == /\ creds # None
                 /\ creds[1].username # <<>>
                 /\ _get_session_file_path(DetectUrl, creds[1].username) \in DOMAIN store0
      IN  /\ applies # {} <=> due
          /\ Cardinality(applies) <= 1
          /\ pc = "df_goto" => gotos = {}
          /\ pc = "df_classify" => gotos = {Len(log)}
          /\ \A i \in applies, j \in gotos : i < j

C10_AppliedThenNavigated ==
    /\ pc = "df_classify"
    /\ Len(log) = 2
    /\ log[1][1] = "apply_session_to_context"
    /\ log[2][1] = "goto"
    /\ session_used

InDetect == pc \in {"df_preload", "df_goto", "df_classify", "df_auth", "df_renavigate",
                    "df_reclassify", "df_extract", "df_done"}

\* C11: once the preload step is over, session_used is true exactly when a
\* session file existed for (url, username) and applying it returned true;
\* without a session file nothing is applied, the context stays as it was,
\* the call goes on to the navigation, and the result carries session_used
\* (false then), on the error path too.
C11_SessionUsedIffApplied ==
    (InDetect /\ pc # "df_preload") =>
      LET due == /\ creds # None
                 /\ creds[1].username # <<>>
                 /\ _get_session_file_path(DetectUrl, creds[1].username) \in DOMAIN store0
          applied == /\ due
                     /\ store0[_get_session_file_path(DetectUrl, creds[1].username)].kind = "json"
                     /\ ~(fault[1] = "df" /\ fault[2] \in ApplyFaults)
      IN  /\ session_used <=> applied
          /\ ~due => ctx = FreshContext
          /\ pc = "df_goto" =>
                (\A i \in 1..Len(log) : log[i][1] = "apply_session_to_context" => log[i][2] = session_used)
          /\ pc = "df_done" => outcome[1].session_used = session_used

C11_UsedOnErrorPath ==
    /\ pc = "df_done"
    /\ outcome[1].session_used
    /\ outcome[1].method = <<"Erro na deteccao">>

\* C12: when the page is classified as login page and no credentials were
\* given, detect_fields neither authenticates nor navigates again: it
\* extracts the fields of the page at hand and returns them, marked as coming
\* from a login page, never an error result.
C12_LoginWallWithoutCredentials ==
    (InDetect /\ creds = None) =>
        /\ pc \notin {"df_auth", "df_renavigate", "df_reclassify"}
        /\ auth_success = None
        /\ \A i \in 1..Len(log) : log[i][1] \notin {"fill", "click", "press"}
        /\ (pc = "df_done" /\ is_login_page) =>
              /\ outcome[1].method[1] \in {"Heuristicas Playwright", "Nenhum campo encontrado"}
              /\ outcome[1].method[Len(outcome[1].method)] = "(pagina de login detectada)"
              /\ fault = NoFault => outcome[1].fields = _detect_interactive_fields(page, "none").fields

C12_LoginFieldsWithoutCredentials ==
    /\ pc = "df_done"
    /\ creds = None
    /\ is_login_page
    /\ outcome[1].fields # <<>>

\* C13: in every result of _detect_interactive_fields (which detect_fields
\* returns as it is) no two fields have the same css_selector.
C13_NoSharedSelector ==
    (pc \in {"fx_done", "df_done"} /\ outcome # None) =>
        \A i, j \in 1..Len(outcome[1].fields) :
            outcome[1].fields[i].css_selector = outcome[1].fields[j].css_selector => i = j

\* a result from which duplicates were removed
C13_DuplicatesRemoved ==
    /\ pc = "fx_done"
    /\ Len(outcome[1].fields) > 1
    /\ \E i, j \in 1..Len(stage) : i # j /\ stage[i].css_selector = stage[j].css_selector

\* the entries of `fields` that are the first with their css_selector
FirstOccurrences(fields) ==
    {n \in 1..Len(fields) :
        \A m \in 1..(n - 1) : fields[m].css_selector # fields[n].css_selector}

\* C14: what _remove_duplicate_fields keeps is its input restricted to the
\* first entry of every css_selector, in the input's order, and the kept
\* entries and the removed duplicates it reports add up to the input.
C14_FirstOccurrenceSubsequence ==
    pc = "fx_done" =>
        LET first == FirstOccurrences(stage)
            kept == outcome[1].fields
        IN  /\ Len(kept) = Cardinality(first)
            /\ \A n \in 1..Len(kept) :
                  kept[n] = stage[CHOOSE k \in first : Cardinality({j \in first : j <= k}) = n]
            /\ Len(kept) + log[1][2] = Len(stage)
            /\ log[2][2] = Len(kept)

\* a duplicate that differs from the entry kept in its place was removed
C14_DistinctDuplicateRemoved ==
    /\ pc = "fx_done"
    /\ log[1][2] > 0
    /\ \E i, j \in 1..Len(stage) :
          i < j /\ stage[i].css_selector = stage[j].css_selector /\ stage[i] # stage[j]

\* no handle was used by two requests, and none after it was closed
Exclusive ==
    /\ \A u, v \in driver.uses : u[2] = v[2] => u[1] = v[1]
    /\ ~driver.stale

\* every request has returned a response of its endpoint, built from its own
\* page when the service ran
AllResponded ==
    \A r \in Requests :
        /\ requests[r].pc = "rq_done"
        /\ requests[r].response # None
        /\ requests[r].response[1].request_id = r
        /\ requests[r].response[1].endpoint = requests[r].endpoint
        /\ requests[r].response[1].page \in {None, requests[r].page}

\* C15: under every interleaving of concurrent requests no browser, context
\* or page is used by more than one request, and every request ends with its
\* own response.
C15_ExclusiveAndComplete == []Exclusive /\ <>AllResponded

\* all requests are inside their service call at once, each with a page
C15_AllInFlight ==
    /\ DOMAIN requests = Requests
    /\ \A r \in Requests : requests[r].pc = "rq_serve" /\ requests[r].page # None

\* C16: a save, delete or load in which a file operation raised returned to
\* its caller: save and delete with false, load with None.
C16_StoreFaultsReturnFalse ==
    (pc \in {"ss_idle", "ss_done"} /\ outcome # None /\ fault # NoFault
        /\ outcome[1].op \in {"save", "delete", "load"}) =>
        /\ fault[1] = "ss"
        /\ outcome[1].op \in {"save", "delete"} => outcome[1].result = FALSE
        /\ outcome[1].op = "load" => outcome[1].result = None

\* a load of a stored record in which open() or json.load raised
C16_LoadFaultOnStoredRecord ==
    /\ pc = "ss_done"
    /\ outcome[1].op = "load"
    /\ fault[2] \in {"load.open", "load.json"}
    /\ _get_session_file_path(outcome[1].url, outcome[1].username) \in DOMAIN store
    /\ store[_get_session_file_path(outcome[1].url, outcome[1].username)].kind = "json"

\* C17: an apply for a pair that has no stored record (never saved, or
\* deleted since) returns false and leaves the context as it was: no cookie,
\* no open page, no storage entry.
C17_NoRecordNoApply ==
    (pc = "ss_done" /\ outcome[1].op = "apply" /\ last_saved[CalledFor] = None) =>
        /\ ~outcome[1].result
        /\ fault[1] # "escaped"
        /\ ctx = FreshContext

\* C18: after any saves and deletes, a pair exists in the store exactly when
\* its last successful operation was a save; right after a delete for a pair
\* the pair does not exist and its load returns None.
C18_ExistsIffLastSave ==
    pc = "ss_idle" =>
        /\ \A k \in StoreKeys : session_exists(store, k[1], k[2]) <=> last_saved[k] # None
        /\ (outcome # None /\ outcome[1].op = "delete" /\ fault = NoFault) =>
              /\ ~session_exists(store, outcome[1].url, outcome[1].username)
              /\ load_session(store, outcome[1].url, outcome[1].username, "none").value = None

\* C19: in the dictionary test_authentication returns, form_filled is true
\* exactly when the fill stage reported success and submission_successful
\* exactly when the submit stage did, whatever the later stages reported.
C19_StageFlags ==
    (pc = "ta_done" /\ outcome # None) =>
        /\ outcome[1].form_filled <=> TRUE \in StageResults("fill")
        /\ outcome[1].submission_successful <=> TRUE \in StageResults("submit")

\* the pieces of a message that are credential texts
CredentialPieces(message) == Range(message) \cap {"username", "password"}

\* C20: the message test_authentication returns holds neither the username
\* nor the password, on every path, the ones through an except branch that
\* puts the driver's error text into a message included.  The credentials
\* being left symbolic, a message without their pieces is the same for two
\* runs that take one path with different passwords.
C20_MessageFreeOfCredentials ==
    (pc = "ta_done" /\ outcome # None) => CredentialPieces(outcome[1].message) = {}

\* the driver's error text echoed the password into the message
\* perform_authentication returned
C20_PasswordInStageMessage ==
    /\ pc = "ta_done"
    /\ \E i \in 1..Len(stage) :
          stage[i][1] = "return" /\ "password" \in CredentialPieces(stage[i][2].message)


-----------------------------------------------------------------------------
(* Detector short-circuit                                                   *)

\* strategy 1 of _detect_login_form finds nothing on p
NoStructuralSelector(p) == \A i \in 1..Len(login_selectors) : Query(p, login_selectors[i]) = "none"

\* the username/password pair of the OrangeHRM strategy
NamedPair(p) ==
    Query(p, "input[name=\"username\"]") # "none" /\ Query(p, "input[name=\"password\"]") # "none"

\* a form holding a user-identifier input and a password input
FormPair(p) ==
    /\ p.form # "none"
    /\ p.elems \cap {"user", "email", "text"} # {}
    /\ "pass" \in p.elems

\* the login keywords of the body text, in the order of the source's list
KeywordsOf(p) == SelectSeq(detect_login_keywords, LAMBDA kw : BodyHas(p, kw))

TextInputs(p) == Cardinality(p.elems \cap {"text", "email", "pass"})

\* C21: when the driver raises nowhere, a page on which neither a structural
\* selector, nor the username/password pair, nor a form with a user and a
\* password input is found, but whose body text holds a login keyword and
\* which has at least two text/email/password inputs, is detected with the
\* message naming the keyword found; a page on which no strategy finds
\* anything is not detected.
C21_KeywordStrategyAlone ==
    pc = "dt_done" /\ fault = NoFault /\ NoStructuralSelector(page) /\ ~NamedPair(page)
                   /\ ~FormPair(page)
    => IF KeywordsOf(page) # <<>> /\ TextInputs(page) >= 2
       THEN outcome[1] = [detected |-> TRUE,
                          message |-> <<"Formulario detectado pela palavra-chave",
                                        Head(KeywordsOf(page))>>]
       ELSE outcome[1] = [detected |-> FALSE,
                          message |-> <<"Formulario de login nao encontrado">>]

\* a page whose only signal is the keyword "acesso" beside two inputs has
\* been detected
C21_DetectedByAcesso ==
    /\ pc = "dt_done" /\ fault = NoFault
    /\ NoStructuralSelector(page) /\ ~NamedPair(page) /\ ~FormPair(page)
    /\ page.body = {"acesso"} /\ page.elems = {"text", "pass"}
    /\ outcome[1].detected


-----------------------------------------------------------------------------
(* Selector stability                                                       *)

\* the visible elements in the order _detect_form_fields comes across them
ElementsFound(p) == FormFields(p, input_selectors, 1) \o FormFields(p, <<"select">>, 1)

\* css is the selector the priority rule gives element k
ByPriority(k, css) ==
    IF IdAttr(k) # "" THEN css = <<"#", IdAttr(k)>>
    ELSE IF NameAttr(k) # "" THEN css = <<Tag(k), "[name=\"", NameAttr(k), "\"]">>
    ELSE css[1] \in {"body > ", "body > form > "} /\ css[2] = Tag(k)

-----------------------------------------------------------------------------
(* Options of a select                                                      *)

\* the <option> elements of p that carry a value or a text other than blanks
Meaningful(p) ==
    SelectSeq(p.options, LAMBDA o : o.value # <<>> \/ \E i \in 1..Len(o.text) : o.text[i] # " ")

\* C23: when the driver raises nowhere, extraction from a page with a
\* visible select returns exactly one field of type 'select'; its options
\* are, in document order, one {value, text} entry for every <option> that
\* has a value or a text, with the text taken for an empty value and the
\* value for an empty text (None when no <option> has either).
C23_SelectOptions ==
    pc = "fx_done" /\ fault = NoFault /\ Visible(page, "select") =>
        LET selects == SelectSeq(outcome[1].fields, LAMBDA fd : fd.type = "select")
            kept == Meaningful(page)
        IN  /\ Len(selects) = 1
            /\ IF kept = <<>> THEN selects[1].options = None
               ELSE /\ selects[1].options # None
                    /\ Len(selects[1].options[1]) = Len(kept)
                    /\ \A i \in 1..Len(kept) :
                          LET entry == selects[1].options[1][i]
                          IN  /\ kept[i].value # <<>> => entry.value = kept[i].value
                              /\ kept[i].value = <<>> => entry.value = entry.text
                              /\ Strip(kept[i].text) # <<>> => entry.text = Strip(kept[i].text)
                              /\ Strip(kept[i].text) = <<>> => entry.text = entry.value

\* BR/Brazil and US/USA were extracted in that order, around an <option>
\* that was skipped
C23_BrazilUSA ==
    /\ pc = "fx_done" /\ fault = NoFault
    /\ Len(page.options) = 3
    /\ page.options[2] = [value |-> <<>>, text |-> <<" ">>]
    /\ \E i \in 1..Len(outcome[1].fields) :
          outcome[1].fields[i].options =
              Some(<< [value |-> <<"B","R">>, text |-> <<"B","r","a","z","i","l">>],
                      [value |-> <<"U","S">>, text |-> <<"U","S","A">>] >>)


-----------------------------------------------------------------------------
(* Order of the signals of _verify_authentication                           *)

\* the url _verify_authentication read holds no login pattern and holds a
\* success pattern
SuccessUrl ==
    /\ \A i \in 1..Len(verify_login_url_patterns) :
          ~Contains(Lower(seen.page.url), verify_login_url_patterns[i])
    /\ \E i \in 1..Len(success_url_patterns) :
          Contains(Lower(seen.page.url), success_url_patterns[i])

\* an error-indicator element with text is on the page it read
ErrorShown == \E i \in 1..Len(error_selectors) : Query(seen.page, error_selectors[i]) # "none"

\* C24: when the url read after the submission holds no login pattern and
\* holds a success pattern, _verify_authentication returns success, whether
\* or not an error-indicator element with text is on the page.
C24_UrlOutranksErrorText ==
    InAuth /\ StageResults("verify") # {} /\ SuccessUrl => StageResults("verify") = {TRUE}

\* verified on a dashboard url that shows an error element
C24_VerifiedDespiteError ==
    /\ InAuth /\ StageResults("verify") = {TRUE}
    /\ SuccessUrl /\ ErrorShown
    /\ seen.page.url = URL_DASH


\* the url _verify_authentication read holds neither a login pattern nor a
\* success pattern
PlainUrl ==
    /\ \A i \in 1..Len(verify_login_url_patterns) :
          ~Contains(Lower(seen.page.url), verify_login_url_patterns[i])
    /\ \A i \in 1..Len(success_url_patterns) :
          ~Contains(Lower(seen.page.url), success_url_patterns[i])

PostLoginShown ==
    \E i \in 1..Len(success_selectors) : Query(seen.page, success_selectors[i]) # "none"

\* C26: when no url pattern, error element or post-login indicator fires and
\* a password field is present without a username-like field,
\* _verify_authentication returns success if the url it reads differs from
\* the url the form was submitted from and is not a login url.
C26_RedirectIsSuccess ==
    /\ InAuth /\ StageResults("verify") # {} /\ fault[2] \notin VerifyFaults
    /\ PlainUrl /\ ~ErrorShown /\ ~PostLoginShown
    /\ Query(seen.page, "input[type=\"password\"]") # "none"
    /\ Query(seen.page, "input[name=\"username\"], input[name=\"user\"], input[name=\"email\"], input[type=\"email\"]") = "none"
    /\ seen.page.url # AuthUrl
    => StageResults("verify") = {TRUE}


-----------------------------------------------------------------------------
(* The path of detect_fields after an automatic authentication              *)

\* the steps of detect_fields in the order of its text
StepOrder == <<"df_preload", "df_goto", "df_classify", "df_auth", "df_renavigate",
               "df_reclassify", "df_extract", "df_done">>

StepRank(step) == CHOOSE i \in 1..Len(StepOrder) : StepOrder[i] = step

\* one step of detect_fields: it only moves forward, so that the automatic
\* authentication runs at most once and the page is classified at most
\* twice; the second navigation follows a successful authentication and
\* nothing else, goes to the requested url and is followed by the second
\* classification; and after a successful authentication the extraction
\* follows a second classification that found no login page
ForwardStep ==
    /\ StepRank(pc') > StepRank(pc)
    /\ pc' = "df_renavigate" <=> (pc = "df_auth" /\ auth_success' = Some(TRUE))
    /\ pc = "df_renavigate" =>
          \/ pc' = "df_reclassify" /\ log' = << <<"goto", DetectUrl>> >>
          \/ pc' = "df_done" /\ fault' = <<"df", "goto">>
    /\ (pc' = "df_extract" /\ auth_success' = Some(TRUE)) =>
          pc = "df_reclassify" /\ ~is_login_page'

\* C27: after a successful automatic authentication detect_fields navigates
\* to the requested url, classifies the page a second time and extracts only
\* when that classification found no login page; a call makes at most one
\* authentication attempt and at most two classifications.
C27_OneAttemptTwoPasses == [][InDetect /\ pc' # pc => ForwardStep]_vars

\* fields were extracted after an authentication and a second classification
C27_ExtractedAfterReclassify ==
    /\ pc = "df_done"
    /\ auth_success = Some(TRUE)
    /\ ~is_login_page
    /\ fault = NoFault
    /\ outcome[1].fields # <<>>


-----------------------------------------------------------------------------
(* The login-wall classification                                            *)

\* the signals of _is_login_page read off the page and the url requested
Redirected(url) == url # page.url

LoginUrl ==
    \E i \in 1..Len(page_login_url_patterns) : Contains(Lower(page.url), page_login_url_patterns[i])

LoginFields == "user" \in page.elems /\ "pass" \in page.elems

LoginWords ==
    \/ \E i \in 1..Len(page_login_keywords) : BodyHas(page, page_login_keywords[i])
    \/ \E i \in 1..Len(title_login_keywords) : title_login_keywords[i] \in page.title

\* what _is_login_page returned for the page, when no driver call raised
Classified ==
    pc = "lp_done" /\ fault = NoFault =>
        /\ is_login_page <=> \/ Redirected(log[1][2]) /\ LoginUrl
                             \/ LoginFields /\ LoginWords
        /\ (~Redirected(log[1][2]) /\ ~LoginFields) => ~is_login_page

\* a fill, click or key press reached the page in the step taken last
PageActed == \E i \in 1..Len(log) : log[i][1] \in {"fill", "click", "press"}

\* C28: when no driver call raises, _is_login_page returns true exactly when
\* (the current url differs from the requested one and holds a login
\* pattern) or (a username-like input and a password input are present and
\* the body text or the title holds a login keyword), so a login-pattern url
\* reached without redirect and without login fields is no login wall; and
\* detect_fields fills and submits only in the automatic authentication,
\* which it enters only after classifying the page as login wall.
C28_LoginWallExactly ==
    /\ [](Classified /\ (pc = "df_auth" => is_login_page))
    /\ [][InDetect /\ log' # log /\ PageActed' => pc = "df_auth"]_vars
    /\ [][pc = "df_classify" /\ ~is_login_page' => pc' \in {"df_extract", "df_classify"}]_vars

\* a requested login url served without redirect and without login fields
\* was classified as no login wall
C28_LoginUrlNotWall ==
    /\ pc = "lp_done" /\ fault = NoFault
    /\ log[1][2] = URL_LOGIN /\ page.url = URL_LOGIN
    /\ ~LoginFields
    /\ ~is_login_page


-----------------------------------------------------------------------------
(* A save racing with a load or an apply                                    *)

\* the reader opened the file after the save had truncated it and before the
\* save had written all of it
OpenedDuringSave == requests.reader.opened = "sv_dump"

\* C29: a reader that opens the file while a save of the same key is under
\* way, after the truncation, never raises and never gets the old record or
\* a mix of old and new content: it gets the new record, or, when what it
\* read is not the whole document, load returns None and apply returns False
\* with the context as it was.
C29_PartialFileReadsAsAbsent ==
    (pc = "race" /\ requests.reader.pc = "rd_done" /\ OpenedDuringSave) =>
        LET r == requests.reader.response[1]
            whole == requests.reader.text = Dumped(StorageState(LoggedInContext))
        IN  /\ ~r.escaped
            /\ IF requests.reader.op = "load_session"
               THEN r.value = IF whole
                              THEN Some(SessionData(AuthUrl, AuthUser, StorageState(LoggedInContext)))
                              ELSE None
               ELSE /\ r.value = whole
                    /\ ~whole => ctx = FreshContext
                    /\ whole => ctx.cookies = LoggedInContext.cookies

\* a complete record was stored; the reader opened the file during the save,
\* read a part of the new document, and load returned None
C29_ReaderSawPartialFile ==
    /\ pc = "race"
    /\ store0 # EmptyDir
    /\ OpenedDuringSave
    /\ requests.reader.pc = "rd_done"
    /\ requests.reader.op = "load_session"
    /\ Len(requests.reader.text) = 1
    /\ requests.reader.response[1].value = None


-----------------------------------------------------------------------------
(* Transient pages of apply_session_to_context                              *)

\* C30: when apply_session_to_context returns, on the success path and on
\* the path where the navigation to an origin or the injection of a storage
\* entry raised, no page it opened is left open in the context; and a call
\* that got as far as an origin has restored the cookies before.
C30_TransientPagesClosed ==
    (pc = "ss_done" /\ outcome[1].op = "apply") =>
        /\ ctx.open = 0
        /\ fault[2] \in {"apply.new_page", "apply.goto", "apply.evaluate", "apply.close"}
              => ctx.cookies # <<>>


-----------------------------------------------------------------------------
(* The credential filler                                                    *)

\* _fill_credentials has just returned: log holds what it did to the page
FillReturned ==
    \/ pc = "pa_submit"
    \/ pc = "ta_return" /\ Len(stage) >= 2 /\ stage[Len(stage) - 1][1] = "fill"

\* the elements a username selector or the text/email fallback can find
UserKinds == {"user", "email", "text"}

-----------------------------------------------------------------------------
\* the text inputs of p that are visible, in document order
VisibleTextInputs(p) == SelectSeq(<<"text", "text_b">>, LAMBDA k : Visible(p, k))

\* the six driver calls that fill the user field u and the password field
FillCalls(u) ==
    << <<"click", u>>, <<"fill", u, "">>, <<"fill", u, "username">>,
       <<"click", "pass">>, <<"fill", "pass", "">>, <<"fill", "pass", "password">> >>

\* C32: when no attribute selector of _fill_credentials finds a username
\* field, the field it fills is the first text input of the page that is
\* visible; a hidden text input is never the one chosen, and with no visible
\* text input the username field is reported missing and nothing is touched.
C32_FallbackPicksVisible ==
    /\ pc = "fm_filled" /\ fault = NoFault
    /\ seen.page.elems \cap {"user", "email"} = {}
    /\ Visible(seen.page, "pass")
    => IF VisibleTextInputs(seen.page) = <<>>
       THEN /\ outcome = Some([ok |-> FALSE, message |-> <<"Campo de usuario nao encontrado">>])
            /\ log = <<>>
       ELSE /\ outcome[1].ok
            /\ log = FillCalls(Head(VisibleTextInputs(seen.page)))

-----------------------------------------------------------------------------
\* the submit buttons of p that are visible, in document order
VisibleButtons(p) == SelectSeq(<<"submit", "submit_b">>, LAMBDA k : Visible(p, k))

\* C33: _submit_form clicks the first visible submit button and reports
\* success, also when the wait for network idle after the click raises;
\* with no such button it presses Enter in the password field and reports
\* success; it reports failure only when there is neither a button to click
\* nor a password field.
C33_SubmitFirstVisible ==
    pc = "fm_submitted" /\ fault[2] \in {"none", "submit.wait", "submit.wait_enter"}
    => IF VisibleButtons(seen.page) # <<>>
       THEN outcome[1].ok /\ log = << <<"click", Head(VisibleButtons(seen.page))>> >>
       ELSE IF "pass" \in seen.page.elems
       THEN outcome[1].ok /\ log = << <<"press", "pass", "Enter">> >>
       ELSE ~outcome[1].ok /\ log = <<>>

-----------------------------------------------------------------------------
(* Field labels                                                             *)

\* the label candidates of the page's input, in the order of the chain
LabelChain(p) ==
    p.attrs.for_label \o p.attrs.parent_label \o p.attrs.placeholder \o p.attrs.title
        \o <<p.attrs.text>>

NonBlank(s) == \E i \in 1..Len(s) : s[i] # " "

\* C34: the label of a detected field is the first candidate of the chain
\* label[for=id], wrapping label, placeholder, title, own text whose trimmed
\* value is not empty, trimmed and cut to 50 characters, and
\* 'Campo sem label' when there is none; the label is never empty.
C34_FirstNonBlankLabel ==
    pc = "fx_done" /\ fault = NoFault /\ page.elems = {"tel"} =>
        LET candidates == SelectSeq(LabelChain(page), NonBlank)
            label == outcome[1].fields[1].label
        IN  /\ Len(outcome[1].fields) = 1
            /\ label # <<>>
            /\ IF candidates = <<>> THEN label = <<"Campo sem label">>
               ELSE LET trimmed == Strip(Head(candidates))
                    IN  label = SubSeq(trimmed, 1, IF Len(trimmed) > 50 THEN 50 ELSE Len(trimmed))

-----------------------------------------------------------------------------
(* Selectors and elements                                                   *)

\* document.querySelector(css) for the selectors made of an id or of a tag
\* and a name: the first element of p, in document order, that they match
Resolved(p, css) ==
    LET matches == SelectSeq(DocOrder, LAMBDA k :
                       /\ k \in p.elems
                       /\ \/ css = <<"#", IdAttr(k)>>
                          \/ css = <<Tag(k), "[name=\"", NameAttr(k), "\"]">>)
    IN  IF matches = <<>> THEN "none" ELSE Head(matches)

\* C35: the css selectors generated for two different visible form elements
\* of a page differ, a selector made of an id or a name resolves to the
\* element it was generated from, and so the fields kept after the removal
\* of duplicates are one for every different element found.
C35_SelectorPerElement ==
    pc = "fx_done" /\ fault = NoFault =>
        LET found == ElementsFound(page)
        IN  /\ \A i, j \in 1..Len(found) :
                  found[i] # found[j] => stage[i].css_selector # stage[j].css_selector
            /\ \A i \in 1..Len(found) :
                  stage[i].css_selector[1] \in {"#", Tag(found[i])}
                      => Resolved(page, stage[i].css_selector) = found[i]
            /\ Len(outcome[1].fields) = Cardinality({found[i] : i \in 1..Len(found)})

-----------------------------------------------------------------------------
\* C36: detect_fields never creates, overwrites or deletes a session record:
\* at every step of a call, and when it has returned, the sessions directory
\* is what it was when the call started, also after an auto-authentication
\* that succeeded.
C36_DetectLeavesStore == InDetect => store = store0

\* a call has returned after a successful auto-authentication, and there is
\* still no session record
C36_RecoveredNotPersisted ==
    /\ pc = "df_done" /\ auth_success = Some(TRUE)
    /\ store0 = EmptyDir /\ store = EmptyDir

-----------------------------------------------------------------------------
\* C37: applying a saved session is all or nothing: while detect_fields
\* runs with session_used false, the context it navigates with holds no
\* cookie and no storage entry of the saved session.
C37_ApplyAllOrNothing ==
    InDetect /\ pc # "df_preload" /\ ~session_used => ctx.cookies = <<>> /\ ctx.origins = <<>>

-----------------------------------------------------------------------------
\* C38: a save that returns false leaves the record its pair had: after a
\* successful save for a pair followed by a save for the same pair that
\* returned false, whatever step of it failed, the record exists and loads
\* as the first save stored it.
C38_FailedSaveKeepsRecord ==
    /\ pc = "ss_idle" /\ stage = << <<"save", TRUE>>, <<"save", FALSE>> >>
    /\ last_saved[CalledFor] # None
    => /\ session_exists(store, CalledFor[1], CalledFor[2])
       /\ load_session(store, CalledFor[1], CalledFor[2], "none").value
             = Some(SessionData(CalledFor[1], CalledFor[2], last_saved[CalledFor][1]))

-----------------------------------------------------------------------------
\* every request has run its finally clause
AllFinished == \A r \in Requests : requests[r].pc = "rq_done"

\* the page, context, browser and driver process the initialisations started
Started ==
    UNION { {services[b].page, services[b].context, services[b].browser,
             services[b].playwright} \ {None} : b \in DOMAIN services }

\* C39: whatever a request started is released by its cleanup, on every exit
\* path: once all requests have finished, the page, the context, the browser
\* and the driver process of each initialisation are closed.
C39_EverythingReleased ==
    pc = "rq" /\ AllFinished => \A h \in Started : h[1] \in driver.closed

-----------------------------------------------------------------------------
\* some selector of sels yields, as the first element it matches on p, an
\* element that is visible
YieldsVisible(p, sels) ==
    \E i \in 1..Len(sels) : Query(p, sels[i]) # "none" /\ Visible(p, Query(p, sels[i]))

\* C40: _perform_auto_authentication fills and clicks visible elements only;
\* when no username selector yields a visible element it returns false and
\* nothing is filled or clicked; when the fields are there and no submit
\* selector yields a visible element, it submits by pressing Enter in the
\* password field.
C40_AutoAuthVisibleOnly ==
    pc = "fm_auto" /\ fault = NoFault =>
        /\ \A i \in 1..Len(log) : log[i][1] \in {"fill", "click"} => Visible(seen.page, log[i][2])
        /\ ~YieldsVisible(seen.page, auto_username_selectors)
              => auth_success = Some(FALSE) /\ log = <<>>
        /\ (/\ YieldsVisible(seen.page, auto_username_selectors)
            /\ Visible(seen.page, "pass")
            /\ ~YieldsVisible(seen.page, auto_submit_selectors))
              => Len(log) = 3 /\ log[3] = <<"press", "pass", "Enter">>

=============================================================================
